---- MODULE Spec2Model ----
(***************************************************************************)
(* State-machine model of the Output view (outputView.ts), the Output      *)
(* service (OutputService, OutputViewFilters) and the simple suggest       *)
(* widget (simpleSuggestWidget.ts).                                        *)
(*                                                                         *)
(* Strings that the code inspects character by character (the sources      *)
(* filter, channel ids, source names) are sequences of one-character       *)
(* strings; <<>> is the empty string.  A text model is a sequence of line  *)
(* records; <<>> stands for "the editor has no model".                     *)
(***************************************************************************)
EXTENDS Integers, Sequences, FiniteSets, TLC

VARIABLES
    \* OutputViewFilters (raw fields behind the getters/setters)
    filters,
    \* OutputService.getActiveChannel()?.id ?? '' as FilterController reads it
    activeChannelId,
    \* FilterController: the editor's text model and the controller's fields
    model, logEntries, hiddenAreas, endLineNumber, fcLast,
    \* OutputViewPane: the memento in workspace storage, and the getter values
    \* the filters had when saveState last ran
    panelState, savedFilters, paneLast,
    \* SimpleSuggestWidget with its list, its element and its collaborators;
    \* the last operation on it; the resize gesture as the user made it
    sw, swLast, gesture,
    \* OutputService with the output channel registry; the last operation
    os, osLast,
    \* OutputEditor with the inputs it was given; the last operation
    oe, oeLast

vars == <<filters, activeChannelId, model, logEntries, hiddenAreas, endLineNumber,
          fcLast, panelState, savedFilters, paneLast, sw, swLast, gesture, os, osLast,
          oe, oeLast>>

----------------------------------------------------------------------------
(* Bounds of the model *)

\* most lines a text model holds, an empty last line (the text ends with a
\* line break) not counted
MaxLines == 2

\* most log levels switched off at the same time
MaxLevelsOff == 1

\* most characters a source name of the sources filter holds
MaxNameLen == 2

----------------------------------------------------------------------------
(* Strings *)

Comma == <<",">>

\* String.prototype.includes
Includes(s, sub) ==
    \E i \in 0..(Len(s) - Len(sub)) : SubSeq(s, i + 1, i + Len(sub)) = sub

\* index (0-based) of the first occurrence of sub in s, -1 if none
IndexOf(s, sub) ==
    IF Includes(s, sub)
    THEN CHOOSE i \in 0..(Len(s) - Len(sub)) :
            /\ SubSeq(s, i + 1, i + Len(sub)) = sub
            /\ \A j \in 0..(i - 1) : SubSeq(s, j + 1, j + Len(sub)) # sub
    ELSE -1

\* String.prototype.replace(pattern: string, by): the first occurrence only
ReplaceFirst(s, sub, by) ==
    LET i == IndexOf(s, sub)
    IN  IF i < 0 THEN s
        ELSE SubSeq(s, 1, i) \o by \o SubSeq(s, i + Len(sub) + 1, Len(s))

----------------------------------------------------------------------------
(* OutputViewFilters *)

Levels == {"trace", "debug", "info", "warning", "error"}

\* the options OutputService constructs the filters with
DefaultFilters ==
    [text |-> "", trace |-> TRUE, debug |-> TRUE, info |-> TRUE,
     warning |-> TRUE, error |-> TRUE, sources |-> <<>>]

\* get sources(): this._sources.get() || ','
SourcesGet(f) == IF f.sources = <<>> THEN Comma ELSE f.sources

hasSource(f, source) ==
    IF source = Comma THEN FALSE
    ELSE Includes(SourcesGet(f), Comma \o source \o Comma)

\* toggleSource that never removes a name
toggleSource_onlyAdd(f, source) ==
    [f EXCEPT !.sources = SourcesGet(f) \o source \o Comma]

toggleSource(f, source) ==
    LET sources == SourcesGet(f)
    IN  IF hasSource(f, source)
        THEN [f EXCEPT !.sources = ReplaceFirst(sources, Comma \o source \o Comma, Comma)]
        ELSE [f EXCEPT !.sources = sources \o source \o Comma]

\* the getters, as a record: what a reader of the filters sees
FiltersView(f) ==
    [text |-> f.text, trace |-> f.trace, debug |-> f.debug, info |-> f.info,
     warning |-> f.warning, error |-> f.error, sources |-> SourcesGet(f)]

LevelFlag(f, level) ==
    CASE level = "trace" -> f.trace
      [] level = "debug" -> f.debug
      [] level = "info" -> f.info
      [] level = "warning" -> f.warning
      [] level = "error" -> f.error

SetLevelFlag(f, level, v) ==
    CASE level = "trace" -> [f EXCEPT !.trace = v]
      [] level = "debug" -> [f EXCEPT !.debug = v]
      [] level = "info" -> [f EXCEPT !.info = v]
      [] level = "warning" -> [f EXCEPT !.warning = v]
      [] level = "error" -> [f EXCEPT !.error = v]

----------------------------------------------------------------------------
(* Text models *)

EmptyLine == [kind |-> "empty", level |-> "", source |-> <<>>, txt |-> ""]
TextLine(t) == [kind |-> "text", level |-> "", source |-> <<>>, txt |-> t]
LogLine(l, s, t) == [kind |-> "log", level |-> l, source |-> s, txt |-> t]

\* "a" is the text the filter box can hold, "b" is any other text
Txts == {"a", "b"}
\* a log line's level: the five levels of the filters, and any other
EntryLevels == Levels \cup {"off"}
\* a log line's source: none, or the source "s"
EntrySources == {<<>>, <<"s">>}

\* the lines a model is made of: every level occurs, and the level "info"
\* occurs with every combination of source and text
LineAlphabet ==
    {EmptyLine} \cup {TextLine(t) : t \in Txts}
    \cup {LogLine(l, <<>>, "b") : l \in EntryLevels}
    \cup {LogLine("info", s, t) : s \in EntrySources, t \in Txts}

\* ITextModel.getLineMaxColumn: the line's length + 1
getLineMaxColumn(lines, n) ==
    CASE lines[n].kind = "empty" -> 1
      [] lines[n].kind = "text" -> 2
      [] lines[n].kind = "log" -> 3

\* new Range(startLineNumber, startColumn, endLineNumber, endColumn)
Range(sl, sc, el, ec) == <<sl, sc, el, ec>>

\* ITextModel.findMatches(text, range, ...).length > 0, for a range of whole lines
findMatches(lines, text, range) ==
    \E k \in range[1]..range[3] :
        k <= Len(lines) /\ lines[k].kind # "empty" /\ lines[k].txt = text

\* the line matches the log entry pattern (timestamp, [level], optional [source])
IsLogLine(lines, n) == lines[n].kind = "log"

\* parseLogEntryAt: the entry runs to the line before the next log line, and
\* stops before an empty last line
RECURSIVE EntryEndLine(_, _)
EntryEndLine(lines, endLine) ==
    IF endLine < Len(lines)
       /\ ~IsLogLine(lines, endLine + 1)
       /\ ~(endLine + 1 = Len(lines) /\ lines[endLine + 1].kind = "empty")
    THEN EntryEndLine(lines, endLine + 1)
    ELSE endLine

parseLogEntryAt(lines, n) ==
    LET endLine == EntryEndLine(lines, n)
    IN  [range |-> Range(n, 1, endLine, getLineMaxColumn(lines, endLine)),
         logLevel |-> lines[n].level,
         source |-> lines[n].source]

RECURSIVE parseLogEntries(_, _)
parseLogEntries(lines, fromLine) ==
    IF fromLine > Len(lines) THEN <<>>
    ELSE IF IsLogLine(lines, fromLine)
         THEN LET e == parseLogEntryAt(lines, fromLine)
              IN  <<e>> \o parseLogEntries(lines, e.range[3] + 1)
         ELSE parseLogEntries(lines, fromLine + 1)

----------------------------------------------------------------------------
(* FilterController *)

\* logEntries: ILogEntry[] | undefined
Undefined == [def |-> FALSE, list |-> <<>>]

computeLogEntriesIncremental(entries, lines, fromLine) ==
    IF entries.def
    THEN [entries EXCEPT !.list = @ \o parseLogEntries(lines, fromLine)]
    ELSE entries

computeLogEntries(lines) ==
    IF ~IsLogLine(lines, 1) THEN Undefined
    ELSE computeLogEntriesIncremental([def |-> TRUE, list |-> <<>>], lines, 1)

\* a switch whose Warning case reads the error flag
shouldShowLogLevel_swapped(entry, f) ==
    CASE entry.logLevel = "trace" -> f.trace
      [] entry.logLevel = "debug" -> f.debug
      [] entry.logLevel = "info" -> f.info
      [] entry.logLevel = "warning" -> f.error
      [] entry.logLevel = "error" -> f.error
      [] OTHER -> TRUE

shouldShowLogLevel(entry, f) ==
    CASE entry.logLevel = "trace" -> f.trace
      [] entry.logLevel = "debug" -> f.debug
      [] entry.logLevel = "info" -> f.info
      [] entry.logLevel = "warning" -> f.warning
      [] entry.logLevel = "error" -> f.error
      [] OTHER -> TRUE

shouldShowSource(active, entry, f) ==
    IF entry.source = <<>> THEN TRUE
    ELSE ~hasSource(f, active \o <<"-">> \o entry.source)

hasLogLevelFilter(f) ==
    ~f.trace \/ ~f.debug \/ ~f.info \/ ~f.warning \/ ~f.error

\* the body of the loop over log entries: does it push entry.range?
EntryPushed(lines, entry, f, active) ==
    IF hasLogLevelFilter(f) /\ ~shouldShowLogLevel(entry, f) THEN TRUE
    ELSE IF ~shouldShowSource(active, entry, f) THEN TRUE
    ELSE IF f.text # "" THEN ~findMatches(lines, f.text, entry.range)
    ELSE FALSE

\* for (let i = from; i < this.logEntries.length; i++), i 0-based
RECURSIVE FilterEntries(_, _, _, _, _)
FilterEntries(lines, list, i, f, active) ==
    IF i >= Len(list) THEN <<>>
    ELSE (IF EntryPushed(lines, list[i + 1], f, active)
          THEN <<list[i + 1].range>> ELSE <<>>)
         \o FilterEntries(lines, list, i + 1, f, active)

\* a loop that starts one line late
FirstPlainLine_late(from) == from + 2

\* the first line the loop over plain lines looks at
FirstPlainLine(from) == from + 1

\* for (let lineNumber = from + 1; lineNumber <= lineCount; lineNumber++)
RECURSIVE FilterLines(_, _, _)
FilterLines(lines, lineNumber, f) ==
    IF lineNumber > Len(lines) THEN <<>>
    ELSE LET lineRange == Range(lineNumber, 1, lineNumber, getLineMaxColumn(lines, lineNumber))
         IN  (IF findMatches(lines, f.text, lineRange) THEN <<>> ELSE <<lineRange>>)
             \o FilterLines(lines, lineNumber + 1, f)

\* filterIncremental: the hidden areas it hands to editor.setHiddenAreas
filterIncremental(lines, from, entries, hidden, f, active) ==
    IF entries.def
    THEN IF hasLogLevelFilter(f) \/ f.text # "" \/ Includes(SourcesGet(f), active)
         THEN hidden \o FilterEntries(lines, entries.list, from, f, active)
         ELSE hidden
    ELSE IF f.text # ""
         THEN hidden \o FilterLines(lines, FirstPlainLine(from), f)
         ELSE hidden

\* filter: this.hiddenAreas = []; filterIncremental(model, 0)
filter(lines, entries, f, active) ==
    filterIncremental(lines, 0, entries, <<>>, f, active)

computeEndLineNumber(lines) ==
    IF Len(lines) > 1 /\ getLineMaxColumn(lines, Len(lines)) = 1
    THEN Len(lines) - 1 ELSE Len(lines)

\* the first entry index / line the incremental path filters from
FilterFrom(entries, endLine) ==
    IF entries.def THEN Len(entries.list) ELSE endLine + 1

\* editor.onDidChangeModel: the editor shows newLines
onDidChangeModel(newLines) ==
    /\ model' = newLines
    /\ logEntries' = IF newLines = <<>> THEN Undefined ELSE computeLogEntries(newLines)
    /\ hiddenAreas' = IF newLines = <<>> THEN <<>>
                      ELSE filter(newLines, logEntries', filters, activeChannelId)
    /\ endLineNumber' = IF newLines = <<>> THEN 0 ELSE computeEndLineNumber(newLines)
    /\ fcLast' = IF newLines = <<>> THEN "none" ELSE "filter"
    /\ UNCHANGED activeChannelId

\* model.onDidChangeContent: the model's lines became newLines by edits of which
\* the first starts on line startLine
onDidChangeContent(newLines, startLine) ==
    /\ model' = newLines
    /\ IF startLine > endLineNumber
       THEN /\ logEntries' = computeLogEntriesIncremental(logEntries, newLines, endLineNumber + 1)
            /\ hiddenAreas' = filterIncremental(newLines, FilterFrom(logEntries, endLineNumber),
                                                logEntries', hiddenAreas, filters, activeChannelId)
            /\ fcLast' = "incremental"
       ELSE /\ logEntries' = computeLogEntries(newLines)
            /\ hiddenAreas' = filter(newLines, logEntries', filters, activeChannelId)
            /\ fcLast' = "filter"
    /\ endLineNumber' = computeEndLineNumber(newLines)
    /\ UNCHANGED activeChannelId

\* filters.onDidChange: editor.hasModel() && this.filter(editor.getModel())
onDidChangeFilters ==
    IF model # <<>>
    THEN /\ hiddenAreas' = filter(model, logEntries, filters', activeChannelId)
         /\ fcLast' = "filter"
         /\ UNCHANGED <<activeChannelId, model, logEntries, endLineNumber>>
    ELSE UNCHANGED <<activeChannelId, model, logEntries, hiddenAreas, endLineNumber, fcLast>>

----------------------------------------------------------------------------
(* Operations on the filters; each setter fires onDidChange as the code does *)

\* set text(filterText)
SetFilterText(t) ==
    /\ filters.text # t
    /\ filters' = [filters EXCEPT !.text = t]
    /\ onDidChangeFilters

\* set trace / debug / info / warning / error
SetLevel(level, v) ==
    /\ LevelFlag(filters, level) # v
    /\ filters' = SetLevelFlag(filters, level, v)
    /\ Cardinality({l \in Levels : ~LevelFlag(filters', l)}) <= MaxLevelsOff
    /\ onDidChangeFilters

\* toggleSource(source); the sources setter always fires
ToggleSource(source) ==
    /\ filters' = toggleSource(filters, source)
    /\ onDidChangeFilters

----------------------------------------------------------------------------
(* Edits of the shown model *)

IsLastLineEmpty(lines) == lines[Len(lines)].kind = "empty"

WithinBounds(lines) ==
    \/ Len(lines) <= MaxLines
    \/ Len(lines) = MaxLines + 1 /\ IsLastLineEmpty(lines)

\* the texts an append inserts, as lines
AppendedLines ==
    {<<l>> : l \in LineAlphabet \ {EmptyLine}}
    \cup {<<l, EmptyLine>> : l \in LineAlphabet \ {EmptyLine}}
    \cup {<<l, m>> : l \in {TextLine("a")}, m \in LineAlphabet \ {EmptyLine}}

\* text inserted at the end of the model (channel.append): into the empty last
\* line, or after the last line
AppendLines(seq) ==
    /\ model # <<>>
    /\ LET newLines == IF IsLastLineEmpty(model)
                       THEN SubSeq(model, 1, Len(model) - 1) \o seq
                       ELSE model \o seq
       IN  /\ WithinBounds(newLines)
           /\ onDidChangeContent(newLines, Len(model))
    /\ UNCHANGED filters

\* one line's content replaced
ChangeLine(i, l) ==
    /\ model # <<>>
    /\ i \in 1..Len(model)
    /\ model[i] # l
    /\ WithinBounds([model EXCEPT ![i] = l])
    /\ onDidChangeContent([model EXCEPT ![i] = l], i)
    /\ UNCHANGED filters

\* channel.clear
ClearModel ==
    /\ model # <<>>
    /\ model # <<EmptyLine>>
    /\ onDidChangeContent(<<EmptyLine>>, 1)
    /\ UNCHANGED filters

\* the editor is given another (one-line) model, or none
ChangeModel(newLines) ==
    /\ newLines # model
    /\ onDidChangeModel(newLines)
    /\ UNCHANGED filters

FilterSourceNames == {<<"c", "-", "s">>}

\* the text typed into the filter box
FilterTexts == {"", "a"}

----------------------------------------------------------------------------
(* OutputViewPane: view state in the memento *)

\* OutputViewPane.checkMoreFilters: what the filter widget is told, for the
\* filters and the channel id of the view ('' when it shows no channel)
checkMoreFilters(f, channelId) ==
    \/ ~f.trace \/ ~f.debug \/ ~f.info \/ ~f.warning \/ ~f.error
    \/ (channelId # <<>> /\ Includes(SourcesGet(f), Comma \o channelId \o <<":">>))

NothingStored ==
    [stored |-> FALSE, filter |-> "", showTrace |-> TRUE, showDebug |-> TRUE,
     showInfo |-> TRUE, showWarning |-> TRUE, showError |-> TRUE,
     sourcesFilter |-> <<>>]

\* panelState[key] ?? dflt
Nullish(state, v, dflt) == IF state.stored THEN v ELSE dflt

\* panelState[key] || dflt, for a string
OrString(state, v, dflt) == IF state.stored /\ v # "" THEN v ELSE dflt

\* this.panelState['showTrace'] || true
RestoreLevel_or(state, v) == IF state.stored /\ v THEN v ELSE TRUE

\* this.panelState['showTrace'] ?? true, and the other four levels
RestoreLevel(state, v) == Nullish(state, v, TRUE)

\* the constructor's assignments to outputService.filters
PaneConstructor(state) ==
    [text |-> OrString(state, state.filter, ""),
     trace |-> RestoreLevel(state, state.showTrace),
     debug |-> RestoreLevel(state, state.showDebug),
     info |-> RestoreLevel(state, state.showInfo),
     warning |-> RestoreLevel(state, state.showWarning),
     error |-> RestoreLevel(state, state.showError),
     sources |-> Nullish(state, state.sourcesFilter, <<>>)]

\* saveState: the getters' values go to the memento, which is saved
PaneSaveState(f) ==
    [stored |-> TRUE, filter |-> f.text, showTrace |-> f.trace,
     showDebug |-> f.debug, showInfo |-> f.info, showWarning |-> f.warning,
     showError |-> f.error, sourcesFilter |-> SourcesGet(f)]

SaveState ==
    /\ panelState' = PaneSaveState(filters)
    /\ savedFilters' = FiltersView(filters)
    /\ paneLast' = "saveState"
    /\ UNCHANGED <<filters, activeChannelId, model, logEntries, hiddenAreas, endLineNumber, fcLast>>

\* a new OutputViewPane over the running OutputService (the view is re-created)
RecreatePane ==
    /\ filters' = PaneConstructor(panelState)
    /\ paneLast' = "construct"
    /\ onDidChangeFilters
    /\ UNCHANGED <<panelState, savedFilters>>

\* a new window: OutputService constructs its filters, then the pane is built
\* (no editor model yet)
ReloadWindow ==
    /\ model = <<>>
    /\ filters' = PaneConstructor(panelState)
    /\ paneLast' = "construct"
    /\ UNCHANGED <<panelState, savedFilters, activeChannelId, model, logEntries,
                   hiddenAreas, endLineNumber, fcLast>>

Edited == paneLast' = "edit" /\ UNCHANGED <<panelState, savedFilters>>

----------------------------------------------------------------------------
(* SimpleSuggestWidget: layout constants *)

\* most items a completion model holds; items are 1..MaxItems, 0 stands for
\* undefined (no item)
MaxItems == 2

\* canExpandCompletionItem: the item has a detail or a documentation
canExpandCompletionItem(item) == item = 1

\* the completion models: lists of distinct items, the empty one included
CompletionModels ==
    UNION {{q \in [1..n -> 1..MaxItems] : \A i, j \in 1..n : q[i] = q[j] => i = j} :
           n \in 0..MaxItems}

Min(a, b) == IF a < b THEN a ELSE b
Max(a, b) == IF a > b THEN a ELSE b
Abs(a) == IF a < 0 THEN 0 - a ELSE a

Dimension(wd, ht) == [width |-> wd, height |-> ht]

MinItemHeight == 8
MaxItemHeight == 1000
ItemsInDefaultHeight == 12
statusBarHeight == 0
borderWidth == 1
borderHeight == 2 * borderWidth
typicalHalfwidthCharacterWidth == 10
verticalPadding == 22
horizontalPadding == 14
DefaultWidth == 430
MinWidth == 220
forceRenderingAboveRequiredSpace == 150

\* clamp(Math.ceil(fontInfo.lineHeight), 8, 1000), for a whole lineHeight
itemHeight(lineHeight) == Min(Max(lineHeight, MinItemHeight), MaxItemHeight)

defaultSize(lineHeight) ==
    Dimension(DefaultWidth,
              statusBarHeight + ItemsInDefaultHeight * itemHeight(lineHeight) + borderHeight)

\* Math.ceil(itemHeight * 4.3)
minPersistedHeight(lineHeight) == (43 * itemHeight(lineHeight) + 9) \div 10

\* Math.round(itemHeight / 2)
threshold(lineHeight) == (itemHeight(lineHeight) + 1) \div 2

\* the page the widget lives in: the body's client area and the container's
\* top on the page
bodyBox == [width |-> 800, height |-> 600, containerTop |-> 0]

\* Number.MAX_SAFE_INTEGER, the max size of a ResizableHTMLElement never laid out
NoMaxSize == 1000000

----------------------------------------------------------------------------
(* SimpleSuggestWidget: fields *)

NoModel == [def |-> FALSE, items |-> <<>>]
NoCapped == [def |-> FALSE, wanted |-> 0, capped |-> 0]
NoDetails == [status |-> "undefined", index |-> 0, item |-> 0]
NoCursor == [def |-> FALSE, top |-> 0, left |-> 0, height |-> 0]
NoSize == [def |-> FALSE, width |-> 0, height |-> 0]
NoResize ==
    [def |-> FALSE, persistedSize |-> NoSize, currentSize |-> Dimension(0, 0),
     persistHeight |-> FALSE, persistWidth |-> FALSE]

Some(d) == [def |-> TRUE, width |-> d.width, height |-> d.height]

\* the widget after its constructor, for a font and with or without status bar
NewWidget(lineHeight, hasStatus) ==
    [state |-> "Hidden",
     completionModel |-> NoModel,
     cappedHeight |-> NoCapped,
     forceRenderingAbove |-> FALSE,
     explainMode |-> FALSE,
     preference |-> "undefined",
     currentSuggestionDetails |-> NoDetails,
     focusedItem |-> 0,
     cursorPosition |-> NoCursor,
     pendingLayout |-> FALSE,
     \* this._list: its elements and its focus trait (0-based indexes)
     list |-> <<>>,
     focus |-> <<>>,
     \* the context key simpleSuggestWidgetHasFocusedSuggestion
     ctxHasFocusedSuggestion |-> FALSE,
     \* the last focus event _onListFocus handled: the item it carried (0 for
     \* none) and how many times onDidFocus fired for it
     lastFocusEvent |-> [item |-> 0, fired |-> 0],
     \* this.element (ResizableHTMLElement) and the DOM
     size |-> Dimension(0, 0),
     minSize |-> Dimension(0, 0),
     maxSize |-> Dimension(NoMaxSize, NoMaxSize),
     top |-> 0,
     left |-> 0,
     domShown |-> FALSE,
     message |-> "",
     messageShown |-> FALSE,
     hasStatus |-> hasStatus,
     \* the constructor's closure variable `state`
     resize |-> NoResize,
     \* collaborators: the persisted size delegate, the storage key
     \* expandSuggestionDocs, the font info
     persistedSize |-> NoSize,
     expandSuggestionDocs |-> FALSE,
     lineHeight |-> lineHeight]

----------------------------------------------------------------------------
(* SimpleSuggestWidget: layout *)

\* ResizableHTMLElement.layout(height, width): clamps to minSize..maxSize
ElementLayout(w, height, width) ==
    [w EXCEPT !.size = Dimension(Max(w.minSize.width, Min(w.maxSize.width, width)),
                                 Max(w.minSize.height, Min(w.maxSize.height, height)))]

_resize(w, width, height) ==
    ElementLayout(w,
                  IF w.maxSize.height # 0 THEN Min(w.maxSize.height, height) ELSE height,
                  Min(w.maxSize.width, width))

\* _layout: bodyBox.width - info.borderHeight - 2 * info.horizontalPadding
maxWidth == bodyBox.width - borderHeight - 2 * horizontalPadding

\* _layout: fullHeight, from this._list.contentHeight and the clientHeight of
\* the message element (one line when the message is displayed)
fullHeight(w) ==
    statusBarHeight + Len(w.list) * itemHeight(w.lineHeight)
        + (IF w.domShown /\ w.messageShown THEN itemHeight(w.lineHeight) ELSE 0)
        + borderHeight

\* _layout: maxHeightBelow
maxHeightBelow(w) ==
    Min(bodyBox.height
            - (bodyBox.containerTop + w.cursorPosition.top + w.cursorPosition.height)
            - verticalPadding,
        fullHeight(w))

\* _layout: availableSpaceAbove and maxHeightAbove
availableSpaceAbove(w) == bodyBox.containerTop + w.cursorPosition.top - verticalPadding
maxHeightAbove(w) == Min(availableSpaceAbove(w), fullHeight(w))

\* _layout's height without the wanted height remembered
LayoutHeight_forgetful(w, requested) ==
    Min(Max(requested, itemHeight(w.lineHeight) + statusBarHeight),
        Min(Max(maxHeightAbove(w), maxHeightBelow(w)) + borderHeight, fullHeight(w)))

\* _layout: the height, from the requested one or the wanted one remembered,
\* raised to minHeight, capped to maxHeight
LayoutHeight(w, requested) ==
    Min(Max(IF w.cappedHeight.def /\ requested = w.cappedHeight.capped
            THEN w.cappedHeight.wanted ELSE requested,
            itemHeight(w.lineHeight) + statusBarHeight),
        Min(Max(maxHeightAbove(w), maxHeightBelow(w)) + borderHeight, fullHeight(w)))

\* the position preference without the space required above
LayoutAbove_forcedAnywhere(w, height) ==
    height > maxHeightBelow(w) \/ w.forceRenderingAbove

\* _layout: the position preference
LayoutAbove(w, height) ==
    \/ height > maxHeightBelow(w)
    \/ (w.forceRenderingAbove /\ availableSpaceAbove(w) > forceRenderingAboveRequiredSpace)

\* _layout from the position preference on, for the width and height computed
LayoutPlace(w, requested, width, height, above) ==
    _resize([w EXCEPT !.preference = IF above THEN "Above" ELSE "Below",
                      !.maxSize = Dimension(maxWidth,
                                            IF above THEN maxHeightAbove(w)
                                            ELSE maxHeightBelow(w)),
                      !.minSize = Dimension(MinWidth, itemHeight(w.lineHeight) + statusBarHeight),
                      !.cappedHeight = IF height = fullHeight(w)
                                       THEN [def |-> TRUE,
                                             wanted |-> IF w.cappedHeight.def
                                                        THEN w.cappedHeight.wanted
                                                        ELSE requested,
                                             capped |-> height]
                                       ELSE NoCapped,
                      !.left = w.cursorPosition.left,
                      !.top = IF above THEN w.cursorPosition.top - height - borderHeight
                              ELSE w.cursorPosition.top + w.cursorPosition.height],
            width, height)

\* _layout for a size that is defined
LayoutSized(w, size, height) ==
    LayoutPlace(w, size.height, Min(size.width, maxWidth), height, LayoutAbove(w, height))

_layout(w, size) ==
    IF ~w.cursorPosition.def THEN w
    ELSE IF size.def THEN LayoutSized(w, size, LayoutHeight(w, size.height))
    ELSE LayoutSized(w, defaultSize(w.lineHeight),
                     LayoutHeight(w, defaultSize(w.lineHeight).height))

\* dom.show(this.element.domNode), then the layout
_show(w) == _layout([w EXCEPT !.domShown = TRUE], w.persistedSize)

----------------------------------------------------------------------------
(* SimpleSuggestWidget: state, list and focus *)

\* _setState for the states that show the widget
SetStateShown(w, state) ==
    IF w.state = state THEN w
    ELSE _show([w EXCEPT !.state = state,
                         !.message = IF state = "Loading" THEN "Loading..."
                                     ELSE IF state = "Empty" THEN "No suggestions."
                                     ELSE @,
                         !.messageShown = state \in {"Loading", "Empty"}])

\* _onListFocus without this._ctxSuggestWidgetHasFocusedSuggestion.set(true)
FocusOnItem_noContextKey(w, item, index) ==
    IF item # w.focusedItem
    THEN [w EXCEPT !.currentSuggestionDetails = [status |-> "pending", index |-> index, item |-> item],
                   !.focusedItem = item,
                   !.lastFocusEvent = [item |-> item, fired |-> 1]]
    ELSE [w EXCEPT !.lastFocusEvent = [item |-> item, fired |-> 1]]

\* _onListFocus for an event that carries an item: the context key, the
\* focused item and the deferred re-render
FocusOnItem(w, item, index) ==
    IF item # w.focusedItem
    THEN [w EXCEPT !.ctxHasFocusedSuggestion = TRUE,
                   !.currentSuggestionDetails = [status |-> "pending", index |-> index, item |-> item],
                   !.focusedItem = item,
                   !.lastFocusEvent = [item |-> item, fired |-> 1]]
    ELSE [w EXCEPT !.ctxHasFocusedSuggestion = TRUE,
                   !.lastFocusEvent = [item |-> item, fired |-> 1]]

\* _onListFocus(e) after the state Details was left; e is the list's focus
FocusChanged(w) ==
    IF w.focus = <<>>
    THEN IF w.currentSuggestionDetails.status # "undefined"
         THEN [w EXCEPT !.currentSuggestionDetails = NoDetails,
                        !.focusedItem = 0,
                        !.ctxHasFocusedSuggestion = FALSE,
                        !.lastFocusEvent = [item |-> 0, fired |-> 0]]
         ELSE [w EXCEPT !.lastFocusEvent = [item |-> 0, fired |-> 0]]
    ELSE IF ~w.completionModel.def
    THEN [w EXCEPT !.lastFocusEvent = [item |-> w.list[w.focus[1] + 1], fired |-> 0]]
    ELSE FocusOnItem(w, w.list[w.focus[1] + 1], w.focus[1])

\* _onListFocus that leaves the state Details only for an event with an item
_onListFocus_afterEmpty(w) ==
    FocusChanged(IF w.state = "Details" /\ w.focus # <<>> THEN SetStateShown(w, "Open") ELSE w)

_onListFocus(w) ==
    FocusChanged(IF w.state = "Details" THEN SetStateShown(w, "Open") ELSE w)

\* the focus trait after List.splice(start, deleteCount, elements): a focus in
\* the deleted range moves to the nearest index that is left
SplicedFocus(focus, start, deleteCount, inserted, newLength) ==
    IF focus = <<>> THEN <<>>
    ELSE IF focus[1] < start THEN focus
    ELSE IF focus[1] >= start + deleteCount THEN <<focus[1] + inserted - deleteCount>>
    ELSE IF newLength > 0 THEN <<Min(focus[1], newLength - 1)>>
    ELSE <<>>

\* List.splice with this._ignoreFocusEvents set
ListSpliceSilent(w, start, deleteCount, elements) ==
    [w EXCEPT !.list = SubSeq(w.list, 1, start) \o elements
                       \o SubSeq(w.list, start + deleteCount + 1, Len(w.list)),
              !.focus = SplicedFocus(w.focus, start, deleteCount, Len(elements),
                                     Len(w.list) - deleteCount + Len(elements))]

\* List.splice; it fires onDidChangeFocus, which the widget handles
ListSplice(w, start, deleteCount, elements) ==
    _onListFocus(ListSpliceSilent(w, start, deleteCount, elements))

\* List.setFocus(indexes), every index within the list; it fires
\* onDidChangeFocus, which the widget handles
ListSetFocus(w, indexes) == _onListFocus([w EXCEPT !.focus = indexes])

\* _setState whose Hidden branch leaves the list as it is
_setState_keepList(w, state) ==
    IF w.state = state THEN w
    ELSE IF state = "Hidden"
         THEN [w EXCEPT !.state = state,
                        !.messageShown = IF w.hasStatus THEN FALSE ELSE @,
                        !.ctxHasFocusedSuggestion = FALSE,
                        !.focusedItem = 0, !.cappedHeight = NoCapped, !.explainMode = FALSE]
         ELSE SetStateShown(w, state)

_setState(w, state) ==
    IF w.state = state THEN w
    ELSE IF state = "Hidden"
         THEN [ListSplice([w EXCEPT !.state = state,
                                       !.messageShown = IF w.hasStatus THEN FALSE ELSE @,
                                       !.ctxHasFocusedSuggestion = FALSE],
                          0, Len(w.list), <<>>)
               EXCEPT !.focusedItem = 0, !.cappedHeight = NoCapped, !.explainMode = FALSE]
         ELSE SetStateShown(w, state)

\* showSuggestions with items that leaves the list as it was
ShowItems_keepList(w, selectionIndex, isFrozen) ==
    [_setState(w, IF isFrozen THEN "Frozen" ELSE "Open") EXCEPT !.pendingLayout = TRUE]

\* showSuggestions for a model with items: the list is filled, the state set,
\* the selection focused and the layout scheduled
ShowItems(w, selectionIndex, isFrozen) ==
    [ListSetFocus(_setState(ListSplice(w, 0, Len(w.list), w.completionModel.items),
                            IF isFrozen THEN "Frozen" ELSE "Open"),
                  <<selectionIndex>>)
     EXCEPT !.pendingLayout = TRUE]

\* showSuggestions without items that hides the widget whoever asked
ShowNoItems_alwaysHide(w, isAuto) ==
    [_setState(w, "Hidden") EXCEPT !.completionModel = NoModel]

\* showSuggestions for no model or a model without items
ShowNoItems(w, isAuto) ==
    [_setState(w, IF isAuto THEN "Hidden" ELSE "Empty") EXCEPT !.completionModel = NoModel]

\* showSuggestions without the shortcut for a frozen widget
showSuggestions_noShortcut(w, selectionIndex, isFrozen, isAuto, cursorPosition) ==
    IF Len(w.completionModel.items) = 0
    THEN ShowNoItems([w EXCEPT !.cursorPosition = cursorPosition], isAuto)
    ELSE ShowItems([w EXCEPT !.cursorPosition = cursorPosition], selectionIndex, isFrozen)

showSuggestions(w, selectionIndex, isFrozen, isAuto, cursorPosition) ==
    IF isFrozen /\ w.state # "Empty" /\ w.state # "Hidden"
    THEN _setState([w EXCEPT !.cursorPosition = cursorPosition], "Frozen")
    ELSE IF Len(w.completionModel.items) = 0
    THEN ShowNoItems([w EXCEPT !.cursorPosition = cursorPosition], isAuto)
    ELSE ShowItems([w EXCEPT !.cursorPosition = cursorPosition], selectionIndex, isFrozen)

\* hide that leaves the persisted size alone
hide_noMinimum(w) ==
    [_setState([w EXCEPT !.pendingLayout = FALSE], "Hidden") EXCEPT !.domShown = FALSE]

\* hide: the persisted size is restored and stored again with the least height
RaisePersistedHeight(w) ==
    IF w.persistedSize.def /\ w.persistedSize.height < minPersistedHeight(w.lineHeight)
    THEN [w EXCEPT !.persistedSize.height = minPersistedHeight(w.lineHeight)]
    ELSE w

hide(w) ==
    RaisePersistedHeight(
        [_setState([w EXCEPT !.pendingLayout = FALSE], "Hidden") EXCEPT !.domShown = FALSE])

\* this._list.getFocusedElements()[0]
FocusedElement(w) == IF w.focus = <<>> THEN 0 ELSE w.list[w.focus[1] + 1]

\* toggleDetails that shows the details in every state
toggleDetails_anyState(w) ==
    IF w.expandSuggestionDocs
    THEN [w EXCEPT !.expandSuggestionDocs = FALSE]
    ELSE IF canExpandCompletionItem(FocusedElement(w)) \/ w.explainMode
         THEN [w EXCEPT !.expandSuggestionDocs = TRUE]
         ELSE w

toggleDetails(w) ==
    IF w.expandSuggestionDocs
    THEN [w EXCEPT !.expandSuggestionDocs = FALSE]
    ELSE IF (canExpandCompletionItem(FocusedElement(w)) \/ w.explainMode)
            /\ w.state \in {"Open", "Details", "Frozen"}
         THEN [w EXCEPT !.expandSuggestionDocs = TRUE]
         ELSE w

\* if (!this._isDetailsVisible()) { this.toggleDetails() }
ToggleDetailsIfHidden(w) == IF ~w.expandSuggestionDocs THEN toggleDetails(w) ELSE w

\* toggleDetailsFocus that takes a frozen widget for an open one
toggleDetailsFocus_frozenToo(w) ==
    IF w.state = "Details"
    THEN _setState(ListSetFocus(w, w.focus), "Open")
    ELSE IF w.state \in {"Open", "Frozen"}
         THEN ToggleDetailsIfHidden(_setState(w, "Details"))
         ELSE w

toggleDetailsFocus(w) ==
    IF w.state = "Details"
    THEN _setState(ListSetFocus(w, w.focus), "Open")
    ELSE IF w.state = "Open"
         THEN ToggleDetailsIfHidden(_setState(w, "Details"))
         ELSE w

----------------------------------------------------------------------------
(* SimpleSuggestWidget: resizing *)

\* the flags of an event replace the flags of the gesture
ResizeFlags_last(state, e) ==
    IF state.def
    THEN [state EXCEPT !.persistHeight = e.north \/ e.south,
                       !.persistWidth = e.east \/ e.west]
    ELSE state

\* state.persistHeight = state.persistHeight || !!e.north || !!e.south, and width
ResizeFlags(state, e) ==
    IF state.def
    THEN [state EXCEPT !.persistHeight = @ \/ e.north \/ e.south,
                       !.persistWidth = @ \/ e.east \/ e.west]
    ELSE state

\* the size the handler stores when the gesture is done
SizeToPersist(w) ==
    LET state == w.resize
        dflt == defaultSize(w.lineHeight)
        height == IF ~state.persistHeight
                     \/ Abs(state.currentSize.height - w.size.height) <= threshold(w.lineHeight)
                  THEN IF state.persistedSize.def THEN state.persistedSize.height ELSE dflt.height
                  ELSE w.size.height
        width == IF ~state.persistWidth
                    \/ Abs(state.currentSize.width - w.size.width) <= threshold(w.lineHeight)
                 THEN IF state.persistedSize.def THEN state.persistedSize.width ELSE dflt.width
                 ELSE w.size.width
    IN  Some(Dimension(width, height))

\* element.onDidResize(e) after this._resize
AfterResize(w, e) ==
    IF ~e.done THEN [w EXCEPT !.resize = ResizeFlags(w.resize, e)]
    ELSE IF w.resize.def
         THEN [w EXCEPT !.persistedSize =
                            SizeToPersist([w EXCEPT !.resize = ResizeFlags(w.resize, e)]),
                        !.resize = NoResize]
         ELSE [w EXCEPT !.resize = NoResize]

\* element.onDidResize(e)
onDidResize(w, e) == AfterResize(_resize(w, e.dimension.width, e.dimension.height), e)

----------------------------------------------------------------------------
(* SimpleSuggestWidget: operations *)

\* where the caller puts the cursor: near the top
CursorTop == [def |-> TRUE, top |-> 100, left |-> 10, height |-> 16]

\* the last operation and its inputs
Op(name) ==
    [op |-> name, selectionIndex |-> 0, isFrozen |-> FALSE, isAuto |-> FALSE, done |-> FALSE]

NoGesture ==
    [active |-> FALSE, ended |-> FALSE, startSize |-> Dimension(0, 0),
     persistedSize |-> NoSize, ns |-> FALSE, ew |-> FALSE]

\* an operation other than a resize event: the gesture in progress goes on,
\* a gesture that ended is forgotten
GestureGoesOn == gesture' = IF gesture.active THEN gesture ELSE NoGesture

\* this._completionModel?.items.length !== 0: undefined, the length of no
\* model, is not 0
hasCompletions(w) ==
    IF w.completionModel.def THEN Len(w.completionModel.items) # 0 ELSE TRUE

setCompletionModel(items) ==
    /\ sw' = [sw EXCEPT !.completionModel = [def |-> TRUE, items |-> items]]
    /\ swLast' = Op("setCompletionModel")
    /\ GestureGoesOn

\* selectionIndex is an index of the model's items (0 for an empty model)
ShowSuggestions(selectionIndex, isFrozen, isAuto, cursorPosition) ==
    /\ selectionIndex <= Max(0, Len(sw.completionModel.items) - 1)
    /\ sw' = showSuggestions(sw, selectionIndex, isFrozen, isAuto, cursorPosition)
    /\ swLast' = [Op("showSuggestions") EXCEPT !.selectionIndex = selectionIndex,
                                               !.isFrozen = isFrozen,
                                               !.isAuto = isAuto]
    /\ GestureGoesOn

\* the animation-frame callback showSuggestions schedules
RunPendingLayout ==
    /\ sw.pendingLayout
    /\ sw' = _layout([sw EXCEPT !.pendingLayout = FALSE], Some(sw.size))
    /\ swLast' = Op("layout")
    /\ GestureGoesOn

\* the continuation of _currentSuggestionDetails: the focused item is
\* rendered again, with this._ignoreFocusEvents set
ReRender ==
    LET d == sw.currentSuggestionDetails
    IN  /\ d.status = "pending"
        /\ sw' = IF d.index >= Len(sw.list) \/ d.item # sw.list[d.index + 1]
                 THEN [sw EXCEPT !.currentSuggestionDetails.status = "settled"]
                 ELSE [ListSpliceSilent(sw, d.index, 1, <<d.item>>)
                       EXCEPT !.currentSuggestionDetails.status = "settled",
                              !.focus = <<d.index>>]
        /\ swLast' = Op("reRender")
        /\ GestureGoesOn

Hide ==
    /\ sw' = hide(sw)
    /\ swLast' = Op("hide")
    /\ GestureGoesOn

\* List.focusNext(1, true): the next index, the first one after the last
selectNext ==
    /\ sw' = IF Len(sw.list) = 0 THEN sw
             ELSE ListSetFocus(sw, <<(IF sw.focus # <<>> THEN sw.focus[1] + 1 ELSE 0)
                                        % Len(sw.list)>>)
    /\ swLast' = Op("selectNext")
    /\ GestureGoesOn

\* List.focusPrevious(1, true): the previous index, the last one before the first
selectPrevious ==
    /\ sw' = IF Len(sw.list) = 0 THEN sw
             ELSE ListSetFocus(sw, <<(Len(sw.list)
                                         + (IF sw.focus # <<>> THEN sw.focus[1] - 1 ELSE 0))
                                        % Len(sw.list)>>)
    /\ swLast' = Op("selectPrevious")
    /\ GestureGoesOn

\* selectNextPage / selectPreviousPage: the list focuses an index of its choice
selectPage(index) ==
    /\ index < Len(sw.list)
    /\ sw' = ListSetFocus(sw, <<index>>)
    /\ swLast' = Op("selectPage")
    /\ GestureGoesOn

\* the list changes its focus by itself (keys pressed while it has the DOM
\* focus) or drops it, and fires onDidChangeFocus
ListFocusChanged(indexes) ==
    /\ sw.domShown
    /\ indexes # sw.focus
    /\ \A i \in 1..Len(indexes) : indexes[i] < Len(sw.list)
    /\ sw' = ListSetFocus(sw, indexes)
    /\ swLast' = Op(IF sw.state = "Details" THEN "listFocusInDetails" ELSE "listFocus")
    /\ GestureGoesOn

ToggleDetails ==
    /\ sw' = toggleDetails(sw)
    /\ swLast' = Op("toggleDetails")
    /\ GestureGoesOn

ToggleDetailsFocus ==
    /\ sw' = toggleDetailsFocus(sw)
    /\ swLast' = Op("toggleDetailsFocus")
    /\ GestureGoesOn

toggleExplainMode ==
    /\ sw' = IF FocusedElement(sw) # 0
             THEN ToggleDetailsIfHidden([sw EXCEPT !.explainMode = ~sw.explainMode])
             ELSE sw
    /\ swLast' = Op("toggleExplainMode")
    /\ GestureGoesOn

forceRenderingAbove ==
    /\ sw' = IF ~sw.forceRenderingAbove
             THEN _layout([sw EXCEPT !.forceRenderingAbove = TRUE], sw.persistedSize)
             ELSE sw
    /\ swLast' = Op("forceRenderingAbove")
    /\ GestureGoesOn

stopForceRenderingAbove ==
    /\ sw' = [sw EXCEPT !.forceRenderingAbove = FALSE]
    /\ swLast' = Op("stopForceRenderingAbove")
    /\ GestureGoesOn

resetWidgetSize ==
    /\ sw' = [sw EXCEPT !.persistedSize = NoSize]
    /\ swLast' = Op("resetWidgetSize")
    /\ GestureGoesOn

\* a sash of the displayed widget is grabbed: the element fires onDidWillResize
onDidWillResize ==
    /\ sw.domShown
    /\ sw' = [sw EXCEPT !.resize = [def |-> TRUE, persistedSize |-> sw.persistedSize,
                                    currentSize |-> sw.size,
                                    persistHeight |-> FALSE, persistWidth |-> FALSE]]
    /\ swLast' = Op("onDidWillResize")
    /\ gesture' = [active |-> TRUE, ended |-> FALSE, startSize |-> sw.size,
                   persistedSize |-> sw.persistedSize, ns |-> FALSE, ew |-> FALSE]

\* the event onDidResize carries: the size the element laid itself out to, and
\* the sashes that moved
ResizeEvent(el, sashes, done) ==
    [dimension |-> el.size, done |-> done,
     north |-> "north" \in sashes, south |-> "south" \in sashes,
     east |-> "east" \in sashes, west |-> "west" \in sashes]

\* a held sash moved or was released, or a sash of the displayed widget was
\* double-clicked (an event that is done and names no sash): the element lays
\* itself out and fires onDidResize with its size
DidResize(height, width, sashes, done) ==
    /\ sw.resize.def \/ (sw.domShown /\ done /\ sashes = {})
    /\ sw' = onDidResize(ElementLayout(sw, height, width),
                         ResizeEvent(ElementLayout(sw, height, width), sashes, done))
    /\ swLast' = [Op("onDidResize") EXCEPT !.done = done]
    /\ gesture' = IF gesture.active
                  THEN [gesture EXCEPT !.ns = @ \/ ("north" \in sashes) \/ ("south" \in sashes),
                                       !.ew = @ \/ ("east" \in sashes) \/ ("west" \in sashes),
                                       !.active = ~done,
                                       !.ended = done]
                  ELSE [gesture EXCEPT !.ended = FALSE]

----------------------------------------------------------------------------
(* OutputService and the output channel registry *)

\* most OutputChannel objects the service creates in a run
MaxChannelObjects == 3

ChannelIds == {"a", "b"}

\* an OutputChannel object: its id and the order of its creation
NoChannel == [id |-> "", n |-> 0]
NotStored == [def |-> FALSE, id |-> ""]

\* this.channels.get(id)
getChannel(s, id) ==
    IF \E c \in s.channels : c.id = id
    THEN CHOOSE c \in s.channels : c.id = id
    ELSE NoChannel

\* the descriptor of channel 'a' is that of a log channel with a single
\* source; no other channel is a log channel
isSingleSourceLogChannel(id) == id = "a"

\* the log levels a logger has, and a default level is
LogLevels == {"info", "debug"}

\* setLevelIsDefaultContext up to its await, or to its end for a channel
\* that is no single-source log channel; a computation that waits is kept
\* with the log level it read
setLevelIsDefaultContext(s) ==
    IF s.activeChannel # NoChannel /\ isSingleSourceLogChannel(s.activeChannel.id)
    THEN [s EXCEPT !.pendingLevel = @ \cup {[channelLogLevel |-> s.logLevel]}]
    ELSE [s EXCEPT !.levelIsDefault = FALSE]

\* setLevelIsDefaultContext after its await: the default level has arrived
setLevelIsDefaultContextResolved(s, computation) ==
    [s EXCEPT !.pendingLevel = @ \ {computation},
              !.levelIsDefault = (s.defaultLogLevel = computation.channelLogLevel)]

\* setActiveChannel that never removes the stored id
setActiveChannel_keepStored(s, channel) ==
    setLevelIsDefaultContext(
        [s EXCEPT !.activeChannel = channel,
                  !.storage = IF channel # NoChannel THEN [def |-> TRUE, id |-> channel.id]
                              ELSE @])

setActiveChannel(s, channel) ==
    setLevelIsDefaultContext(
        [s EXCEPT !.activeChannel = channel,
                  !.storage = IF channel # NoChannel THEN [def |-> TRUE, id |-> channel.id]
                              ELSE NotStored])

\* showChannel up to its await: the view is asked to open for the channel
showChannel(s, id) ==
    LET channel == getChannel(s, id)
        s1 == IF s.activeChannel.id # channel.id
              THEN [setActiveChannel(s, channel) EXCEPT !.activeOutputChannelContext = id,
                                                        !.events = @ + 1]
              ELSE s
    IN  [s1 EXCEPT !.pendingShow = @ \cup {channel}]

\* showChannel after its await: the opened view shows the channel
showChannelOpened(s, channel) ==
    [s EXCEPT !.pendingShow = @ \ {channel},
              !.viewVisible = TRUE,
              !.viewChannel = IF channel # NoChannel THEN channel ELSE @]

\* the message of the error for a channel id the registry does not hold
NotRegisteredYet(id) == <<"Channel '", id, "' is not registered yet">>

\* instantiateChannel that throws without logging
instantiateChannel_silent(s, id) ==
    IF \E i \in 1..Len(s.registry) : s.registry[i] = id
    THEN s
    ELSE [s EXCEPT !.thrown = NotRegisteredYet(id)]

\* instantiateChannel as far as it can fail: the error logged and thrown
instantiateChannel(s, id) ==
    IF \E i \in 1..Len(s.registry) : s.registry[i] = id
    THEN s
    ELSE [s EXCEPT !.logged = NotRegisteredYet(id), !.thrown = NotRegisteredYet(id)]

\* onDidRegisterChannel that makes every new channel the active one
ChannelCreated_alwaysActive(s, channelId) ==
    LET channel == [id |-> channelId, n |-> s.created + 1]
        old == getChannel(s, channelId)
        s1 == [s EXCEPT !.created = @ + 1,
                        !.channels = (@ \ {old}) \cup {channel},
                        !.disposed = IF old # NoChannel THEN @ \cup {old} ELSE @]
        s2 == [setActiveChannel(s1, channel) EXCEPT !.activeOutputChannelContext = channelId,
                                                    !.events = @ + 1]
    IN  IF s2.viewVisible THEN [s2 EXCEPT !.viewChannel = channel] ELSE s2

\* onDidRegisterChannel once createChannel has returned the channel
ChannelCreated(s, channelId) ==
    LET channel == [id |-> channelId, n |-> s.created + 1]
        old == getChannel(s, channelId)
        s1 == [s EXCEPT !.created = @ + 1,
                        !.channels = (@ \ {old}) \cup {channel},
                        !.disposed = IF old # NoChannel THEN @ \cup {old} ELSE @]
    IN  IF s1.activeChannel = NoChannel \/ s1.activeChannelIdInStorage = channelId
        THEN LET s2 == [setActiveChannel(s1, channel) EXCEPT !.activeOutputChannelContext = channelId,
                                                             !.events = @ + 1]
             IN  IF s2.viewVisible THEN [s2 EXCEPT !.viewChannel = channel] ELSE s2
        ELSE s1

\* onDidRegisterChannel: the promise is rejected when createChannel throws
onDidRegisterChannelAfter(s, channelId) ==
    IF s.thrown # <<>> THEN s ELSE ChannelCreated(s, channelId)

onDidRegisterChannel(s, channelId) ==
    onDidRegisterChannelAfter(instantiateChannel(s, channelId), channelId)

RECURSIVE registryRemoveChannel(_, _)
RECURSIVE onModelDispose(_, _)
RECURSIVE deleteAndDispose(_, _)

\* onDidRemoveChannel that keeps the channel in the map
onDidRemoveChannel_keep(s, id) ==
    IF s.activeChannel.id = id /\ s.registry # <<>>
    THEN showChannel(s, s.registry[1])
    ELSE s

onDidRemoveChannel(s, id) ==
    LET s1 == IF s.activeChannel.id = id /\ s.registry # <<>>
              THEN showChannel(s, s.registry[1])
              ELSE s
    IN  deleteAndDispose(s1, id)

\* DisposableMap.deleteAndDispose: the channel is disposed, and its model
\* with it
deleteAndDispose(s, id) ==
    LET channel == getChannel(s, id)
        s1 == [s EXCEPT !.disposed = @ \cup {channel}]
        s2 == IF channel \in s.modelDisposed THEN s1
              ELSE onModelDispose([s1 EXCEPT !.modelDisposed = @ \cup {channel}], channel)
    IN  IF channel = NoChannel THEN s
        ELSE [s2 EXCEPT !.channels = @ \ {channel}]

\* the listener createChannel puts on channel.model.onDispose
onModelDispose(s, channel) ==
    LET first == IF s.registry # <<>> THEN getChannel(s, s.registry[1]) ELSE NoChannel
        s1 == IF s.activeChannel = channel
              THEN IF first # NoChannel /\ s.viewVisible
                   THEN showChannel(s, first.id)
                   ELSE setActiveChannel(s, NoChannel)
              ELSE s
    IN  registryRemoveChannel(s1, channel.id)

\* the registry's removeChannel: it fires onDidRemoveChannel for a known id
registryRemoveChannel(s, id) ==
    IF \E i \in 1..Len(s.registry) : s.registry[i] = id
    THEN onDidRemoveChannel([s EXCEPT !.registry = SelectSeq(@, LAMBDA x : x # id)], id)
    ELSE s

\* the registry's registerChannel: it fires onDidRegisterChannel for a new id
registryRegisterChannel(s, id) ==
    IF \E i \in 1..Len(s.registry) : s.registry[i] = id
    THEN s
    ELSE onDidRegisterChannel([s EXCEPT !.registry = Append(@, id)], id)

\* the id of the compound channel of channels 'a' and 'b', in whatever
\* order they are given: the ids in the order of the labels, joined by '-'
CompoundId == "a-b"

NoSave == [stage |-> "none", compound |-> FALSE, channel |-> NoChannel, before |-> {}]

\* registerCompoundLogChannel for the descriptors of 'a' and 'b'
registerCompoundLogChannel(s) == registryRegisterChannel(s, CompoundId)

\* saveOutputAs up to its first await, the save dialog; the ids the registry
\* held when the call began are kept with the call
saveOutputAs(s, channels) ==
    LET s1 == IF Len(channels) > 1 THEN registerCompoundLogChannel(s) ELSE s
        channel == getChannel(s1, IF Len(channels) > 1 THEN CompoundId ELSE channels[1])
    IN  [s1 EXCEPT !.save = [stage |-> IF channel = NoChannel THEN "done" ELSE "dialog",
                             compound |-> Len(channels) > 1,
                             channel |-> channel,
                             before |-> {s.registry[i] : i \in 1..Len(s.registry)}]]

\* saveOutputAs: the outer finally
saveOutputAsFinally(s) ==
    [(IF s.save.compound THEN registryRemoveChannel(s, s.save.channel.id) ELSE s)
     EXCEPT !.save.stage = "done"]

\* saveOutputAs after the save dialog: no uri, or the model reference is
\* created and the write begins
saveOutputAsDialogDone(s, uri) ==
    IF uri
    THEN [s EXCEPT !.save.stage = "write", !.modelRefs = @ + 1]
    ELSE saveOutputAsFinally(s)

\* saveOutputAs after the write, done or failed: both finally blocks
saveOutputAsWriteDone(s) ==
    saveOutputAsFinally([s EXCEPT !.modelRefs = @ - 1])

RECURSIVE RegisterAll(_, _)
\* the constructor's loop over registry.getChannels()
RegisterAll(s, ids) ==
    IF ids = <<>> THEN s
    ELSE RegisterAll(onDidRegisterChannel(s, Head(ids)), Tail(ids))

\* new OutputService(...), for the registry and the storage it finds
OutputServiceConstructor(registry, storage) ==
    LET stored == IF storage.def THEN storage.id ELSE ""
        s0 == [registry |-> registry,
               channels |-> {},
               created |-> 0,
               disposed |-> {},
               modelDisposed |-> {},
               activeChannel |-> NoChannel,
               activeChannelIdInStorage |-> stored,
               storage |-> storage,
               activeOutputChannelContext |-> stored,
               events |-> 0,
               \* the error logged and the error thrown by the last operation
               logged |-> <<>>,
               thrown |-> <<>>,
               \* the context key of the level being the default one, the
               \* computations of it that wait, the log level of channel
               \* 'a' and its default level
               levelIsDefault |-> FALSE,
               pendingLevel |-> {},
               logLevel |-> "info",
               defaultLogLevel |-> "info",
               \* the saveOutputAs call in progress, and the text model
               \* references held
               save |-> NoSave,
               modelRefs |-> 0,
               pendingShow |-> {},
               viewVisible |-> FALSE,
               viewChannel |-> NoChannel]
        s1 == RegisterAll(s0, registry)
    IN  IF s1.activeChannel = NoChannel
        THEN setActiveChannel(s1, IF registry # <<>> THEN getChannel(s1, registry[1])
                                  ELSE NoChannel)
        ELSE s1

\* an operation starts: what the last one fired, logged and threw is forgotten
Called(s) == [s EXCEPT !.events = 0, !.logged = <<>>, !.thrown = <<>>]

RegisterChannel(id) ==
    /\ os.created < MaxChannelObjects
    /\ os' = registryRegisterChannel(Called(os), id)
    /\ osLast' = "register"

RemoveChannel(id) ==
    /\ os' = registryRemoveChannel(Called(os), id)
    /\ osLast' = "remove"

\* a channel is to be created for an id the registry does not hold
CreateUnregistered(id) ==
    /\ \A i \in 1..Len(os.registry) : os.registry[i] # id
    /\ os' = onDidRegisterChannel(Called(os), id)
    /\ osLast' = "createChannel"

\* a channel's model is disposed from outside the service
DisposeModel(channel) ==
    /\ channel \in os.channels \ os.modelDisposed
    /\ os' = onModelDispose([Called(os) EXCEPT !.modelDisposed = @ \cup {channel}], channel)
    /\ osLast' = "modelDispose"

ShowChannel(id) ==
    /\ os' = showChannel(Called(os), id)
    /\ osLast' = "showChannel"

\* viewsService.openView resolves for one of the pending showChannel calls
OpenViewDone(channel) ==
    /\ channel \in os.pendingShow
    /\ os' = showChannelOpened(Called(os), channel)
    /\ osLast' = "openView"

\* defaultLogLevelsService.getDefaultLogLevel resolves for a computation
LevelResolved(computation) ==
    /\ computation \in os.pendingLevel
    /\ os' = setLevelIsDefaultContextResolved(Called(os), computation)
    /\ osLast' = "levelResolved"

\* loggerService.onDidChangeLogLevel for the logger of channel 'a'
ChangeLogLevel(level) ==
    /\ os.logLevel # level
    /\ os' = setLevelIsDefaultContext([Called(os) EXCEPT !.logLevel = level])
    /\ osLast' = "logLevel"

\* defaultLogLevelsService.onDidChangeDefaultLogLevels
ChangeDefaultLogLevels(level) ==
    /\ os.defaultLogLevel # level
    /\ os' = setLevelIsDefaultContext([Called(os) EXCEPT !.defaultLogLevel = level])
    /\ osLast' = "defaultLogLevels"

\* registerCompoundLogChannel called for channels 'a' and 'b', as the
\* service's interface allows, while no saveOutputAs call is in progress
RegisterCompoundLogChannel ==
    /\ os.save.stage \in {"none", "done"}
    /\ os.created < MaxChannelObjects
    /\ os' = registerCompoundLogChannel(Called(os))
    /\ osLast' = "registerCompound"

SaveOutputAs(channels) ==
    /\ os.save.stage \in {"none", "done"}
    /\ os.created < MaxChannelObjects
    /\ os' = saveOutputAs(Called(os), channels)
    /\ osLast' = "saveOutputAs"

\* fileDialogService.showSaveDialog resolves, with a uri or without
SaveDialogDone(uri) ==
    /\ os.save.stage = "dialog"
    /\ os' = saveOutputAsDialogDone(Called(os), uri)
    /\ osLast' = "saveDialog"

\* fileService.writeFile resolves or rejects
SaveWriteDone(written) ==
    /\ os.save.stage = "write"
    /\ os' = saveOutputAsWriteDone(Called(os))
    /\ osLast' = IF written THEN "saveWritten" ELSE "saveWriteFailed"

\* viewsService.onDidChangeViewVisibility for the Output view
ChangeViewVisibility(visible) ==
    /\ os.viewVisible # visible
    /\ os' = [Called(os) EXCEPT !.viewVisible = visible,
                                !.viewChannel = IF visible /\ os.activeChannel # NoChannel
                                                THEN os.activeChannel ELSE @]
    /\ osLast' = "viewVisibility"


----------------------------------------------------------------------------
(* OutputEditor *)

\* most TextResourceEditorInput objects created in a run
MaxInputs == 4

\* this.input undefined; an input is its resource and the order of its creation
NoInput == [resource |-> "", n |-> 0]

\* getConfigurationOverrides without options.domReadOnly = true
getConfigurationOverrides_domEditable(options, outputConfig) ==
    [options EXCEPT !.wordWrap = IF outputConfig.def /\ outputConfig.wordWrap # "absent"
                                 THEN outputConfig.wordWrap ELSE "on",
                    !.lineNumbers = "off",
                    !.minimap = outputConfig.def /\ outputConfig.minimap = "true",
                    !.readOnly = TRUE]

\* the options OutputEditor returns for the options of its base class and
\* the value of the '[Log]' configuration ("absent" for a key it does not hold)
getConfigurationOverrides(options, outputConfig) ==
    [options EXCEPT !.wordWrap = IF outputConfig.def /\ outputConfig.wordWrap # "absent"
                                 THEN outputConfig.wordWrap ELSE "on",
                    !.lineNumbers = "off",
                    !.minimap = outputConfig.def /\ outputConfig.minimap = "true",
                    !.readOnly = TRUE,
                    !.domReadOnly = TRUE]

\* the editor after its constructor, no '[Log]' configuration set
IdleEditor ==
    /\ oe = [input |-> NoInput, installed |-> {}, disposed |-> {}, created |-> 0,
             outputConfig |-> [def |-> FALSE, wordWrap |-> "absent", minimap |-> "absent"],
             options |-> [wordWrap |-> "off", lineNumbers |-> "on", minimap |-> TRUE,
                          readOnly |-> FALSE, domReadOnly |-> FALSE]]
    /\ oeLast = [op |-> "none", input |-> NoInput]

\* setInput without this.input.dispose()
setInput_noDispose(resource) ==
    LET input == [resource |-> resource, n |-> oe.created + 1]
    IN  /\ oe.created < MaxInputs
        /\ oe' = IF oe.input # NoInput /\ input.resource = oe.input.resource
                 THEN [oe EXCEPT !.created = @ + 1]
                 ELSE [oe EXCEPT !.created = @ + 1,
                                 !.input = input,
                                 !.installed = @ \cup {input}]
        /\ oeLast' = [op |-> "setInput", input |-> input]

\* OutputViewPane creates an input for a channel's resource and gives it to
\* the editor
setInput(resource) ==
    LET input == [resource |-> resource, n |-> oe.created + 1]
    IN  /\ oe.created < MaxInputs
        /\ oe' = IF oe.input # NoInput /\ input.resource = oe.input.resource
                 THEN [oe EXCEPT !.created = @ + 1]
                 ELSE [oe EXCEPT !.created = @ + 1,
                                 !.disposed = IF oe.input # NoInput THEN @ \cup {oe.input}
                                              ELSE @,
                                 !.input = input,
                                 !.installed = @ \cup {input}]
        /\ oeLast' = [op |-> "setInput", input |-> input]

clearInput ==
    /\ oe' = [oe EXCEPT !.disposed = IF oe.input # NoInput THEN @ \cup {oe.input} ELSE @,
                        !.input = NoInput]
    /\ oeLast' = [op |-> "clearInput", input |-> NoInput]

\* the configuration changes, or the editor is created: the editor takes
\* its options from getConfigurationOverrides
updateOptions(options, outputConfig) ==
    /\ oe' = [oe EXCEPT !.outputConfig = outputConfig,
                        !.options = getConfigurationOverrides(options, outputConfig)]
    /\ oeLast' = [op |-> "getConfigurationOverrides", input |-> NoInput]

----------------------------------------------------------------------------
(* Specifications *)

\* the suggest widget and the output service while another component runs
IdleWidget ==
    /\ sw = NewWidget(9, TRUE)
    /\ swLast = Op("none")
    /\ gesture = NoGesture

IdleService ==
    /\ os = OutputServiceConstructor(<<>>, NotStored)
    /\ osLast = "none"

IdleFilter ==
    /\ filters = DefaultFilters
    /\ activeChannelId = <<"c">>
    /\ model = <<>>
    /\ logEntries = Undefined
    /\ hiddenAreas = <<>>
    /\ endLineNumber = 0
    /\ fcLast = "none"
    /\ panelState = NothingStored
    /\ savedFilters = FiltersView(DefaultFilters)
    /\ paneLast = "none"

InitFilter == IdleFilter /\ IdleWidget /\ IdleService /\ IdleEditor

NextFilter ==
    /\ UNCHANGED <<panelState, savedFilters, paneLast, sw, swLast, gesture, os, osLast, oe, oeLast>>
    /\ \/ \E t \in FilterTexts : SetFilterText(t)
       \/ \E l \in Levels, v \in BOOLEAN : SetLevel(l, v)
       \/ \E s \in FilterSourceNames : ToggleSource(s)
       \/ \E seq \in AppendedLines : AppendLines(seq)
       \/ \E i \in 1..(MaxLines + 1), l \in LineAlphabet : ChangeLine(i, l)
       \/ ClearModel
       \/ \E m \in {<<>>} \cup {<<l>> : l \in LineAlphabet} : ChangeModel(m)

SpecFilter == InitFilter /\ [][NextFilter]_vars


NextPane ==
    /\ UNCHANGED <<sw, swLast, gesture, os, osLast, oe, oeLast>>
    /\ \/ \E t \in FilterTexts : SetFilterText(t) /\ Edited
       \/ \E l \in Levels, v \in BOOLEAN : SetLevel(l, v) /\ Edited
       \/ \E s \in FilterSourceNames : ToggleSource(s) /\ Edited
       \/ SaveState
       \/ RecreatePane
       \/ ReloadWindow

SpecPane == InitFilter /\ [][NextPane]_vars

\* source names without a comma: the empty name, and names of which one is
\* the beginning, the end or the double of another
SourceNames == UNION {[1..n -> {"a", "b"}] : n \in 0..MaxNameLen}

\* the sources filter, changed by toggleSource only, from the empty filter
NextSources ==
    /\ UNCHANGED <<panelState, savedFilters, paneLast, sw, swLast, gesture, os, osLast,
                   oe, oeLast>>
    /\ \E source \in SourceNames : ToggleSource(source)

SpecSources == InitFilter /\ [][NextSources]_vars

\* resizing the suggest widget: a font below the item-height minimum, one
\* completion model, one cursor position, the first item selected; while a
\* sash is held the caller does not show suggestions, it only hides the widget
\* or resets its size; the re-render of the focused item, which touches no
\* size, is left to SpecWidget
InitResize ==
    /\ IdleEditor
    /\ IdleFilter
    /\ IdleService
    /\ sw = NewWidget(5, TRUE)
    /\ swLast = Op("none")
    /\ gesture = NoGesture

NextResize ==
    /\ UNCHANGED <<filters, activeChannelId, model, logEntries, hiddenAreas,
                   endLineNumber, fcLast, panelState, savedFilters, paneLast, os, osLast, oe, oeLast>>
    /\ \/ ~sw.resize.def /\ setCompletionModel(<<1, 2>>)
       \/ ~sw.resize.def /\ ShowSuggestions(0, FALSE, TRUE, CursorTop)
       \/ ~sw.resize.def /\ RunPendingLayout
       \/ Hide
       \/ resetWidgetSize
       \/ onDidWillResize
       \* the sizes a sash is dragged to, and the sashes an event names
       \/ \E h \in {10, 14, 18}, w \in {430, 436}, done \in BOOLEAN,
             sashes \in {{}, {"north"}, {"south", "east"}, {"west"}} :
             DidResize(h, w, sashes, done)

SpecResize == InitResize /\ [][NextResize]_vars

\* the suggest widget driven by its caller and the keyboard: one font, one
\* cursor position
InitWidget ==
    /\ IdleEditor
    /\ IdleFilter
    /\ IdleService
    /\ sw = NewWidget(9, TRUE)
    /\ swLast = Op("none")
    /\ gesture = NoGesture

NextWidget ==
    /\ UNCHANGED <<filters, activeChannelId, model, logEntries, hiddenAreas,
                   endLineNumber, fcLast, panelState, savedFilters, paneLast, os, osLast, oe, oeLast>>
    /\ \/ \E items \in CompletionModels : setCompletionModel(items)
       \/ \E i \in 0..(MaxItems - 1), isFrozen \in BOOLEAN, isAuto \in BOOLEAN :
             ShowSuggestions(i, isFrozen, isAuto, CursorTop)
       \/ RunPendingLayout
       \/ ReRender
       \/ Hide
       \/ selectNext
       \/ selectPrevious
       \/ \E i \in 0..(MaxItems - 1) : selectPage(i)
       \/ ToggleDetails
       \/ ToggleDetailsFocus

SpecWidget == InitWidget /\ [][NextWidget]_vars

\* laying the suggest widget out: every cursor position, with a status bar
\* or without, rendering above forced or not, explain mode on or off
InitLayout ==
    /\ IdleEditor
    /\ IdleFilter
    /\ IdleService
    \* a small font, and one so large that two items do not fit the page
    /\ \E lineHeight \in {9, 200}, hasStatus \in BOOLEAN : sw = NewWidget(lineHeight, hasStatus)
    /\ swLast = Op("none")
    /\ gesture = NoGesture

NextLayout ==
    /\ UNCHANGED <<filters, activeChannelId, model, logEntries, hiddenAreas,
                   endLineNumber, fcLast, panelState, savedFilters, paneLast, os, osLast, oe, oeLast>>
    /\ \/ \E items \in {<<>>, <<1>>, <<1, 2>>} : setCompletionModel(items)
       \* the cursor near the top and in the middle of the page
       \/ \E isAuto \in BOOLEAN,
             cursorPosition \in {CursorTop, [CursorTop EXCEPT !.top = 300]} :
             ShowSuggestions(0, FALSE, isAuto, cursorPosition)
       \/ RunPendingLayout
       \/ Hide
       \/ forceRenderingAbove
       \/ stopForceRenderingAbove

SpecLayout == InitLayout /\ [][NextLayout]_vars

\* the suggest widget, the focus events of its list and the details: the
\* caller's operations, the deferred re-render, and focus changes the list
\* makes
NextFocus ==
    /\ UNCHANGED <<filters, activeChannelId, model, logEntries, hiddenAreas,
                   endLineNumber, fcLast, panelState, savedFilters, paneLast, os, osLast, oe, oeLast>>
    /\ \/ \E items \in {<<>>, <<1, 2>>, <<2, 1>>} : setCompletionModel(items)
       \/ \E i \in 0..(MaxItems - 1), isFrozen \in BOOLEAN, isAuto \in BOOLEAN :
             ShowSuggestions(i, isFrozen, isAuto, CursorTop)
       \/ ReRender
       \/ Hide
       \/ selectNext
       \/ ToggleDetails
       \/ ToggleDetailsFocus
       \/ toggleExplainMode
       \/ \E indexes \in {<<>>} \cup {<<i>> : i \in 0..(MaxItems - 1)} :
             ListFocusChanged(indexes)

SpecFocus == InitWidget /\ [][NextFocus]_vars

\* the output service and the registry of output channels
InitService ==
    /\ IdleEditor
    /\ IdleFilter
    /\ IdleWidget
    /\ \E registry \in {<<>>, <<"a">>, <<"b", "a">>},
          storage \in {NotStored, [def |-> TRUE, id |-> "a"], [def |-> TRUE, id |-> "z"]} :
          os = OutputServiceConstructor(registry, storage)
    /\ osLast = "none"

NextService ==
    /\ UNCHANGED <<filters, activeChannelId, model, logEntries, hiddenAreas,
                   endLineNumber, fcLast, panelState, savedFilters, paneLast, sw, swLast,
                   gesture, oe, oeLast>>
    /\ \/ \E id \in ChannelIds : RegisterChannel(id)
       \/ \E id \in ChannelIds : RemoveChannel(id)
       \/ \E channel \in os.channels : DisposeModel(channel)
       \/ \E id \in ChannelIds \cup {"z"} : ShowChannel(id)
       \/ \E channel \in os.pendingShow : OpenViewDone(channel)
       \/ \E visible \in BOOLEAN : ChangeViewVisibility(visible)

SpecService == InitService /\ [][NextService]_vars

\* the output editor: inputs set and cleared, options taken from the
\* configuration; the base class's options and the '[Log]' value vary
NextEditor ==
    /\ UNCHANGED <<filters, activeChannelId, model, logEntries, hiddenAreas,
                   endLineNumber, fcLast, panelState, savedFilters, paneLast,
                   sw, swLast, gesture, os, osLast>>
    /\ \/ \E resource \in {"a", "b", "c"} : setInput(resource)
       \/ clearInput
       \/ \E editable \in BOOLEAN,
             outputConfig \in {[def |-> FALSE, wordWrap |-> "absent", minimap |-> "absent"]}
                 \cup [def : {TRUE}, wordWrap : {"absent", "on", "off"},
                       minimap : {"absent", "true", "false"}] :
             updateOptions([wordWrap |-> IF editable THEN "off" ELSE "on",
                            lineNumbers |-> IF editable THEN "on" ELSE "off",
                            minimap |-> TRUE, readOnly |-> ~editable,
                            domReadOnly |-> ~editable],
                           outputConfig)

SpecEditor == InitFilter /\ [][NextEditor]_vars

\* the output service driven by the registry and the channel models alone:
\* registrations, removals, model disposals, and the view opening that a
\* removal asks for
NextRegistry ==
    /\ UNCHANGED <<filters, activeChannelId, model, logEntries, hiddenAreas,
                   endLineNumber, fcLast, panelState, savedFilters, paneLast, sw, swLast,
                   gesture, oe, oeLast>>
    /\ \/ \E id \in ChannelIds : RegisterChannel(id)
       \/ \E id \in ChannelIds : RemoveChannel(id)
       \/ \E channel \in os.channels : DisposeModel(channel)
       \/ \E channel \in os.pendingShow : OpenViewDone(channel)
       \/ \E id \in ChannelIds : CreateUnregistered(id)

SpecRegistry == InitService /\ [][NextRegistry]_vars

\* the output service and the log levels: the active channel changes while
\* computations of the level context wait for the default level
NextLevels ==
    /\ UNCHANGED <<filters, activeChannelId, model, logEntries, hiddenAreas,
                   endLineNumber, fcLast, panelState, savedFilters, paneLast, sw, swLast,
                   gesture, oe, oeLast>>
    /\ \/ \E id \in ChannelIds : RegisterChannel(id)
       \/ \E id \in ChannelIds : ShowChannel(id)
       \/ \E channel \in os.pendingShow : OpenViewDone(channel)
       \/ \E computation \in os.pendingLevel : LevelResolved(computation)
       \/ \E level \in LogLevels : ChangeLogLevel(level)
       \/ \E level \in LogLevels : ChangeDefaultLogLevels(level)

SpecLevels == InitService /\ [][NextLevels]_vars

\* the output service and saveOutputAs, one call at a time; between calls
\* channels are registered and removed
NextSave ==
    /\ UNCHANGED <<filters, activeChannelId, model, logEntries, hiddenAreas,
                   endLineNumber, fcLast, panelState, savedFilters, paneLast, sw, swLast,
                   gesture, oe, oeLast>>
    /\ \/ \E channels \in {<<"a">>, <<"b">>, <<"a", "b">>, <<"b", "a">>} : SaveOutputAs(channels)
       \/ \E uri \in BOOLEAN : SaveDialogDone(uri)
       \/ \E written \in BOOLEAN : SaveWriteDone(written)
       \/ RegisterCompoundLogChannel
       \/ \E id \in ChannelIds : os.save.stage \in {"none", "done"} /\ RegisterChannel(id)
       \/ \E id \in ChannelIds \cup {CompoundId} :
             os.save.stage \in {"none", "done"} /\ RemoveChannel(id)
       \/ \E channel \in os.pendingShow : OpenViewDone(channel)

SpecSave == InitService /\ [][NextSave]_vars


----------------------------------------------------------------------------
(* Claims about the FilterController *)

SeqToSet(q) == {q[i] : i \in 1..Len(q)}

NoDuplicates(q) == \A i, j \in 1..Len(q) : q[i] = q[j] => i = j

\* the hidden areas a full computeLogEntries + filter gives on the shown model
FullHiddenAreas ==
    filter(model, computeLogEntries(model), filters, activeChannelId)

\* C1: after a content change handled by the incremental path (every edit
\* starts after the previous last non-empty line), the hidden areas are the
\* same set of ranges as a full computeLogEntries + filter on the changed model
\* gives.
C1_IncrementalAgreesWithFull ==
    fcLast = "incremental" => SeqToSet(hiddenAreas) = SeqToSet(FullHiddenAreas)

\* the entry is to be hidden: its level (one of the five) is switched off, or
\* its source is hidden for the active channel, or the filter text is
\* non-empty and has no match inside the entry's range
EntryToBeHidden(e) ==
    \/ e.logLevel \in Levels /\ ~LevelFlag(filters, e.logLevel)
    \/ e.source # <<>> /\ hasSource(filters, activeChannelId \o <<"-">> \o e.source)
    \/ filters.text # "" /\ ~findMatches(model, filters.text, e.range)

\* C2: after filter on a log model, the range of an entry is among the hidden
\* areas exactly if its level is switched off, its source is hidden for the
\* active channel, or the non-empty filter text has no match in its range;
\* nothing else is hidden and no range occurs twice.
C2_LogEntryHiddenIff ==
    (fcLast = "filter" /\ logEntries.def) =>
        /\ \A i \in 1..Len(logEntries.list) :
              (logEntries.list[i].range \in SeqToSet(hiddenAreas))
                  <=> EntryToBeHidden(logEntries.list[i])
        /\ SeqToSet(hiddenAreas) \subseteq {logEntries.list[i].range : i \in 1..Len(logEntries.list)}
        /\ NoDuplicates(hiddenAreas)

\* a log model with two entries after filter: the first hidden because its
\* level is off, the second shown
C2_Witness ==
    /\ fcLast = "filter" /\ logEntries.def
    /\ Len(logEntries.list) = 2
    /\ Len(hiddenAreas) = 1
    /\ hiddenAreas[1] = logEntries.list[1].range
    /\ logEntries.list[1].logLevel = "warning" /\ ~filters.warning

LineRange(n) == Range(n, 1, n, getLineMaxColumn(model, n))

\* C3: after filter on a model whose first line is no log entry, a line is
\* hidden exactly if the filter text is non-empty and the line has no match;
\* level and source filters hide nothing.
C3_PlainLineHiddenIff ==
    (fcLast = "filter" /\ model # <<>> /\ ~IsLogLine(model, 1)) =>
        /\ ~logEntries.def
        /\ \A n \in 1..Len(model) :
              (LineRange(n) \in SeqToSet(hiddenAreas))
                  <=> (filters.text # "" /\ ~findMatches(model, filters.text, LineRange(n)))
        /\ SeqToSet(hiddenAreas) \subseteq {LineRange(n) : n \in 1..Len(model)}
        /\ (filters.text = "" => hiddenAreas = <<>>)

\* a plain model after filter with a matching line shown, another line hidden,
\* and a level and a source filter switched on
C3_Witness ==
    /\ fcLast = "filter" /\ model # <<>> /\ ~IsLogLine(model, 1)
    /\ filters.text = "a"
    /\ Len(model) = 3 /\ Len(hiddenAreas) = 2
    /\ model[1] = TextLine("a")
    /\ ~filters.info
    /\ hasSource(filters, <<"c", "-", "s">>)

----------------------------------------------------------------------------
(* Claims about the view state *)

\* C4: a pane constructed over the state saveState stored reads back the text,
\* the five levels and the sources as they were at saveState; with nothing
\* stored the text is '' and the five levels are true.
C4_ViewStateRoundTrip ==
    paneLast = "construct" =>
        IF panelState.stored
        THEN FiltersView(filters) = savedFilters
        ELSE /\ filters.text = ""
             /\ \A l \in Levels : LevelFlag(filters, l)

\* a pane constructed over a stored state with a text, a level off and a
\* hidden source
C4_Witness ==
    /\ paneLast = "construct" /\ panelState.stored
    /\ savedFilters.text = "a" /\ ~savedFilters.debug
    /\ savedFilters.sources = <<",", "c", "-", "s", ",">>
    /\ FiltersView(filters) = savedFilters

----------------------------------------------------------------------------
(* Claims about the suggest widget's size *)

\* the size a gesture is to leave persisted: per axis the new size if a sash
\* of that axis moved and the size changed by more than the threshold, else
\* the size persisted when the gesture began, else the default
GestureSize(g, size, lineHeight) ==
    LET dflt == defaultSize(lineHeight)
        old == IF g.persistedSize.def THEN g.persistedSize ELSE Some(dflt)
    IN  [def |-> TRUE,
         width |-> IF g.ew /\ Abs(size.width - g.startSize.width) > threshold(lineHeight)
                   THEN size.width ELSE old.width,
         height |-> IF g.ns /\ Abs(size.height - g.startSize.height) > threshold(lineHeight)
                    THEN size.height ELSE old.height]

\* C5: when a resize gesture ends (onDidWillResize, then onDidResize events,
\* the last one done), the persisted height is the widget's new height exactly
\* if an event of the gesture moved the north or south sash and the new height
\* differs from the height at the start by more than round(itemHeight/2);
\* otherwise it is the height persisted before the gesture, or the default
\* height; the same for the width with the east and west sashes.
C5_ResizePersistsChangedAxis ==
    (swLast.op = "onDidResize" /\ swLast.done /\ gesture.ended) =>
        sw.persistedSize = GestureSize(gesture, sw.size, sw.lineHeight)

\* a gesture that moved the north sash by more than the threshold and the east
\* sash not at all: the new height is persisted with the default width
C5_Witness ==
    /\ swLast.op = "onDidResize" /\ swLast.done /\ gesture.ended
    /\ gesture.ns /\ ~gesture.ew
    /\ ~gesture.persistedSize.def
    /\ gesture.startSize.height = 18
    /\ sw.size = Dimension(436, 10)
    /\ sw.persistedSize = Some(Dimension(DefaultWidth, 10))

\* C6: hide() leaves the persisted size absent or at least ceil(itemHeight*4.3)
\* high: an absent size stays absent, a lower height is raised to the minimum
\* with the width unchanged, a height at or above the minimum is not rewritten.
C6_HideRaisesPersistedHeight ==
    [][swLast'.op = "hide" =>
          LET p == sw.persistedSize
              q == sw'.persistedSize
              minimum == minPersistedHeight(sw.lineHeight)
          IN  /\ ~q.def \/ q.height >= minimum
              /\ ~p.def => ~q.def
              /\ (p.def /\ p.height < minimum) => q = [p EXCEPT !.height = minimum]
              /\ (p.def /\ p.height >= minimum) => q = p]_vars

\* hide() after a gesture persisted a height of at most 18 and the width 436:
\* the height is raised to the minimum, the width is kept
C6_Witness ==
    /\ swLast.op = "hide"
    /\ sw.persistedSize = Some(Dimension(436, minPersistedHeight(sw.lineHeight)))

----------------------------------------------------------------------------
(* Claims about the suggest widget's state and focus *)

\* C7: showSuggestions(selectionIndex, isFrozen = false, ...) with a completion
\* model of at least one item leaves the widget Open, the list holding the
\* model's items in order and the list focus on selectionIndex.
C7_ShowSuggestionsOpensList ==
    [][(/\ swLast'.op = "showSuggestions"
        /\ ~swLast'.isFrozen
        /\ sw.completionModel.def
        /\ Len(sw.completionModel.items) >= 1) =>
          /\ sw'.state = "Open"
          /\ sw'.list = sw.completionModel.items
          /\ sw'.focus = <<swLast'.selectionIndex>>]_vars

\* suggestions just shown for a model of two items with the second selected
C7_Witness ==
    /\ swLast.op = "showSuggestions" /\ ~swLast.isFrozen
    /\ swLast.selectionIndex = 1
    /\ sw.state = "Open"
    /\ sw.list = <<2, 1>> /\ sw.completionModel.items = <<2, 1>>
    /\ sw.focus = <<1>>

\* C8: showSuggestions with no completion model or an empty one, the frozen
\* shortcut not applying, puts the widget in state Hidden if isAuto and in
\* state Empty with the message 'No suggestions.' if not, and discards the
\* completion model.
C8_ShowSuggestionsWithoutItems ==
    [][(/\ swLast'.op = "showSuggestions"
        /\ Len(sw.completionModel.items) = 0
        /\ ~(swLast'.isFrozen /\ sw.state # "Empty" /\ sw.state # "Hidden")) =>
          /\ sw'.state = IF swLast'.isAuto THEN "Hidden" ELSE "Empty"
          /\ ~swLast'.isAuto => (sw'.message = "No suggestions." /\ sw'.messageShown)
          /\ sw'.completionModel = NoModel]_vars

\* suggestions asked for by hand while the list was open and the model had
\* become empty: the widget shows the message over the items it had
C8_Witness ==
    /\ swLast.op = "showSuggestions" /\ ~swLast.isAuto /\ ~swLast.isFrozen
    /\ sw.state = "Empty"
    /\ sw.message = "No suggestions." /\ sw.messageShown
    /\ sw.completionModel = NoModel
    /\ Len(sw.list) = 2

----------------------------------------------------------------------------
(* Claims about the output service *)

\* C10: the service holds one channel for each id of the registry and for no
\* other id; every channel it created and no longer holds is disposed, and no
\* channel it holds is.
C10_ChannelsMatchRegistry ==
    /\ {c.id : c \in os.channels} = SeqToSet(os.registry)
    /\ \A c, d \in os.channels : c.id = d.id => c = d
    /\ os.channels \cap os.disposed = {}
    /\ \A n \in 1..os.created : \E c \in os.channels \cup os.disposed : c.n = n

\* an id removed and registered again: its first channel disposed, its second
\* channel held, next to the channel of the other id
C10_Witness ==
    /\ osLast = "register"
    /\ os.registry = <<"b", "a">>
    /\ [id |-> "a", n |-> 1] \in os.disposed
    /\ [id |-> "a", n |-> 3] \in os.channels
    /\ [id |-> "b", n |-> 2] \in os.channels

----------------------------------------------------------------------------
(* Claims about the active channel of the OutputService *)

\* C11: after construction and after any sequence of registrations, removals
\* and channel-model disposals, the service has an active channel whenever
\* at least one channel is registered.
C11_ActiveChannelWhenRegistered ==
    os.registry # <<>> => os.activeChannel # NoChannel

\* C12: after every operation of the service, the storage key
\* output.activechannel holds the id of the active channel when there is one
\* and is absent when there is none.
C12_ActiveChannelPersisted ==
    os.storage = IF os.activeChannel # NoChannel
                 THEN [def |-> TRUE, id |-> os.activeChannel.id]
                 ELSE NotStored

\* the model of the active channel was disposed while the view was hidden:
\* no channel is active any more and the key is gone, though it was stored
\* when the service was constructed
C12_Witness ==
    /\ osLast = "modelDispose"
    /\ os.activeChannelIdInStorage = "a"
    /\ os.activeChannel = NoChannel
    /\ os.storage = NotStored
    /\ os.registry = <<"b">>

----------------------------------------------------------------------------
(* Claims about the states of the SimpleSuggestWidget *)

\* C13: showSuggestions with isFrozen true while the state is Loading, Open,
\* Frozen or Details only moves the state to Frozen: the list contents, the
\* list focus and the completion model are left unchanged, even when the
\* completion model is empty.
C13_FrozenShortcut ==
    [][(/\ swLast'.op = "showSuggestions"
        /\ swLast'.isFrozen
        /\ sw.state \in {"Loading", "Open", "Frozen", "Details"})
       => (/\ sw'.state = "Frozen"
           /\ sw'.list = sw.list
           /\ sw'.focus = sw.focus
           /\ sw'.completionModel = sw.completionModel)]_vars

\* frozen with an empty model: the two items shown before are still listed,
\* the second one focused
C13_Witness ==
    /\ swLast.op = "showSuggestions"
    /\ swLast.isFrozen
    /\ sw.state = "Frozen"
    /\ sw.completionModel = [def |-> TRUE, items |-> <<>>]
    /\ sw.list = <<1, 2>>
    /\ sw.focus = <<1>>

\* C14: toggleDetailsFocus moves state Details to Open, the list focus kept,
\* and state Open to Details, and changes nothing in any other state; a
\* second call after one from Open or Details gives the starting state again.
C14_ToggleDetailsFocus ==
    [][swLast'.op = "toggleDetailsFocus"
       => (/\ sw.state = "Details"
               => (sw'.state = "Open" /\ sw'.focus = sw.focus /\ sw'.list = sw.list)
           /\ sw.state = "Open" => sw'.state = "Details"
           /\ sw.state \notin {"Open", "Details"} => sw' = sw
           /\ sw.state \in {"Open", "Details"}
               => toggleDetailsFocus(sw').state = sw.state)]_vars

\* back in state Open from Details, the second item still focused and the
\* details still expanded
C14_Witness ==
    /\ swLast.op = "toggleDetailsFocus"
    /\ sw.state = "Open"
    /\ sw.focus = <<1>>
    /\ sw.expandSuggestionDocs

\* C15: a list focus change received in state Details moves the state to
\* Open before anything else is processed, also when it clears the focus:
\* what follows is what a widget in state Open does for that focus change.
C15_FocusChangeLeavesDetails ==
    [][(/\ swLast'.op \in {"selectNext", "listFocusInDetails"}
        /\ sw.state = "Details")
       => (/\ sw'.state = "Open"
           /\ sw' = FocusChanged([SetStateShown(sw, "Open") EXCEPT !.focus = sw'.focus]))]_vars

\* the focus was dropped in state Details: the widget is open, nothing is
\* focused
C15_Witness ==
    /\ swLast.op = "listFocusInDetails"
    /\ sw.state = "Open"
    /\ sw.focus = <<>>
    /\ sw.focusedItem = 0
    /\ ~sw.ctxHasFocusedSuggestion

\* C16: toggleDetails hides the details whenever they are visible, in any
\* state; when they are not, it shows them if and only if (the focused item
\* is expandable or explain mode is on) and the state is Open, Details or
\* Frozen, and otherwise leaves the flag as it is. When that condition holds,
\* a second call restores the visibility the first one found.
C16_ToggleDetails ==
    [][swLast'.op = "toggleDetails"
       => LET visible == sw.expandSuggestionDocs
              canShow == /\ canExpandCompletionItem(FocusedElement(sw)) \/ sw.explainMode
                         /\ sw.state \in {"Open", "Details", "Frozen"}
          IN  /\ sw'.expandSuggestionDocs = (~visible /\ canShow)
              /\ canShow => toggleDetails(sw').expandSuggestionDocs = visible]_vars

\* the details shown for an item that cannot be expanded, in explain mode, in
\* a frozen widget
C16_Witness ==
    /\ swLast.op = "toggleDetails"
    /\ sw.expandSuggestionDocs
    /\ sw.explainMode
    /\ FocusedElement(sw) = 2
    /\ sw.state = "Frozen"

\* the deferred re-render fires no onDidFocus and changes neither the state
\* nor the focused item; it is skipped when the item is no longer at its index
C17_ReRenderIsSilent ==
    [][swLast'.op = "reRender"
       => LET d == sw.currentSuggestionDetails
          IN  /\ sw'.lastFocusEvent = sw.lastFocusEvent
              /\ sw'.state = sw.state
              /\ sw'.focusedItem = sw.focusedItem
              /\ (d.index >= Len(sw.list) \/ d.item # sw.list[d.index + 1])
                  => (sw'.list = sw.list /\ sw'.focus = sw.focus)]_vars

\* C17: for a list focus change that moves the focus to an item the widget
\* fires onDidFocus exactly once; the deferred re-render of that item fires
\* no onDidFocus, changes neither the state nor the focused item, and is
\* skipped when the item is no longer at that index.
C17_OnDidFocusOncePerFocusChange ==
    [][/\ sw'.lastFocusEvent.item # 0 => sw'.lastFocusEvent.fired = 1
       /\ swLast'.op = "reRender"
          => LET d == sw.currentSuggestionDetails
             IN  /\ sw'.lastFocusEvent = sw.lastFocusEvent
                 /\ sw'.state = sw.state
                 /\ sw'.focusedItem = sw.focusedItem
                 /\ (d.index >= Len(sw.list) \/ d.item # sw.list[d.index + 1])
                     => (sw'.list = sw.list /\ sw'.focus = sw.focus)]_vars

\* C18: setInput with an input that matches the current one changes and
\* disposes nothing; setInput with another input disposes the previous one
\* and installs the new one; clearInput disposes the current input; after
\* every step each installed input that is no longer current is disposed and
\* the current one is not
C18_InputDisposal ==
    [][/\ (oeLast'.op = "setInput" /\ oe.input # NoInput
              /\ oeLast'.input.resource = oe.input.resource)
          => (/\ oe'.input = oe.input
              /\ oe'.disposed = oe.disposed
              /\ oe'.installed = oe.installed)
       /\ (oeLast'.op = "setInput"
              /\ ~(oe.input # NoInput /\ oeLast'.input.resource = oe.input.resource))
          => (/\ oe'.input = oeLast'.input
              /\ oe'.installed = oe.installed \cup {oeLast'.input}
              /\ oe'.disposed = oe.disposed \cup ({oe.input} \ {NoInput}))
       /\ oeLast'.op = "clearInput"
          => (/\ oe'.input = NoInput
              /\ oe'.installed = oe.installed
              /\ oe'.disposed = oe.disposed \cup ({oe.input} \ {NoInput}))
       /\ \A i \in oe'.installed : (i \in oe'.disposed) <=> (i # oe'.input)]_vars

\* a matching input was dropped while an earlier input is disposed
C18_Witness ==
    /\ oeLast.op = "setInput"
    /\ oe.input # NoInput
    /\ oeLast.input # oe.input
    /\ oeLast.input.resource = oe.input.resource
    /\ Cardinality(oe.disposed) = 2
    /\ oe.input \notin oe.disposed

C20_CappedHeight ==
    [][/\ swLast'.op = "layout"
          => /\ sw'.cappedHeight
                    = IF LayoutHeight(sw, sw.size.height) = fullHeight(sw)
                      THEN [def |-> TRUE,
                            wanted |-> IF sw.cappedHeight.def THEN sw.cappedHeight.wanted
                                       ELSE sw.size.height,
                            capped |-> fullHeight(sw)]
                      ELSE NoCapped
             /\ (sw.cappedHeight.def /\ sw.size.height = sw.cappedHeight.capped)
                => /\ LayoutHeight(sw, sw.size.height)
                          = LayoutHeight([sw EXCEPT !.cappedHeight = NoCapped],
                                         sw.cappedHeight.wanted)
                   /\ sw'.preference = "Below" => sw'.size.height
                          = LayoutHeight([sw EXCEPT !.cappedHeight = NoCapped],
                                         sw.cappedHeight.wanted)
       /\ (sw.state # "Hidden" /\ sw'.state = "Hidden") => ~sw'.cappedHeight.def]_vars

\* two items shown in full after a layout that started from the wanted
\* height, the default one
C20_Witness ==
    /\ swLast.op = "layout"
    /\ sw.state = "Open"
    /\ Len(sw.list) = 2
    /\ sw.cappedHeight = [def |-> TRUE, wanted |-> defaultSize(sw.lineHeight).height,
                          capped |-> fullHeight(sw)]
    /\ sw.size.height = fullHeight(sw)
    /\ sw.preference = "Below"

\* C21: a layout places the widget above the cursor exactly when the
\* clamped height exceeds the room below the cursor, or rendering above is
\* forced and the space above the cursor exceeds 150, and below otherwise;
\* forceRenderingAbove lays out only when the flag was not set, and not at
\* all without a cursor position; stopForceRenderingAbove only clears the flag
C21_PlacementAboveOrBelow ==
    [][/\ swLast'.op = "layout"
          => /\ (sw'.preference = "Above")
                    <=> \/ LayoutHeight(sw, sw.size.height) > maxHeightBelow(sw)
                        \/ (sw.forceRenderingAbove
                               /\ availableSpaceAbove(sw) > forceRenderingAboveRequiredSpace)
             /\ sw'.preference \in {"Above", "Below"}
             /\ sw'.preference = "Below"
                => sw'.top = sw.cursorPosition.top + sw.cursorPosition.height
       /\ (swLast'.op = "forceRenderingAbove" /\ sw.forceRenderingAbove) => sw' = sw
       /\ (swLast'.op = "forceRenderingAbove" /\ ~sw.forceRenderingAbove
              /\ ~sw.cursorPosition.def)
          => sw' = [sw EXCEPT !.forceRenderingAbove = TRUE]
       /\ (swLast'.op = "forceRenderingAbove" /\ ~sw.forceRenderingAbove
              /\ sw.cursorPosition.def)
          => /\ sw'.forceRenderingAbove
             /\ (sw'.preference = "Above")
                    <=> \/ LayoutHeight(sw, IF sw.persistedSize.def
                                            THEN sw.persistedSize.height
                                            ELSE defaultSize(sw.lineHeight).height)
                               > maxHeightBelow(sw)
                        \/ availableSpaceAbove(sw) > forceRenderingAboveRequiredSpace
       /\ swLast'.op = "stopForceRenderingAbove"
          => sw' = [sw EXCEPT !.forceRenderingAbove = FALSE]]_vars

\* the widget fits below the cursor and is placed above it because that is
\* forced and there is room
C21_Witness ==
    /\ swLast.op = "forceRenderingAbove"
    /\ sw.forceRenderingAbove
    /\ sw.state = "Open"
    /\ sw.preference = "Above"
    /\ sw.size.height <= maxHeightBelow(sw)
    /\ availableSpaceAbove(sw) > forceRenderingAboveRequiredSpace

\* C22: after a layout that places the widget above the cursor, top plus
\* the rendered height plus the border height is the cursor's top, and the
\* rendered height does not exceed the space above the cursor
C22_AboveMeetsCursor ==
    [][(swLast'.op = "layout" /\ sw'.preference = "Above")
          => /\ sw'.top + sw'.size.height + borderHeight = sw'.cursorPosition.top
             /\ sw'.size.height <= availableSpaceAbove(sw')]_vars

\* C23: creating a channel for an id the registry does not hold throws the
\* error "Channel '<id>' is not registered yet", logs that error, and leaves
\* the channel map, the active channel and the stored id as they were; no
\* other operation throws
C23_UnregisteredChannelFails ==
    [][/\ osLast' = "createChannel"
          => /\ \E id \in ChannelIds :
                    /\ \A i \in 1..Len(os.registry) : os.registry[i] # id
                    /\ os'.thrown = <<"Channel '", id, "' is not registered yet">>
             /\ os'.logged = os'.thrown
             /\ os'.channels = os.channels
             /\ os'.created = os.created
             /\ os'.activeChannel = os.activeChannel
             /\ os'.storage = os.storage
             /\ os'.registry = os.registry
       /\ osLast' # "createChannel" => (os'.thrown = <<>> /\ os'.logged = <<>>)]_vars

\* channel 'a' is active and a channel for 'b', not registered, was asked for
C23_Witness ==
    /\ osLast = "createChannel"
    /\ os.thrown = <<"Channel '", "b", "' is not registered yet">>
    /\ os.logged = os.thrown
    /\ os.registry = <<"a">>
    /\ os.activeChannel.id = "a"
    /\ getChannel(os, "b") = NoChannel

\* C27: the active channel, when there is one, is a channel held in the
\* service's channel map
C27_ActiveChannelInMap ==
    os.activeChannel # NoChannel => os.activeChannel \in os.channels

\* C28: the context key of the active output channel holds the id of the
\* active channel, and is empty when there is no active channel
C28_ContextKeyIsActiveId ==
    os.activeOutputChannelContext = os.activeChannel.id

\* C29: a registration made while a channel is active leaves the active
\* channel, the stored id and the channel the view shows as they were and
\* fires no event, unless the id registered is the active-channel id read
\* from storage by the constructor: then the new channel becomes the active
\* one, with an event
C29_RegisterKeepsActive ==
    [][(osLast' = "register" /\ os'.created # os.created /\ os.activeChannel # NoChannel)
          => IF os'.registry[Len(os'.registry)] = os.activeChannelIdInStorage
             THEN /\ os'.activeChannel = [id |-> os.activeChannelIdInStorage,
                                          n |-> os'.created]
                  /\ os'.activeChannel \in os'.channels
                  /\ os'.storage = [def |-> TRUE, id |-> os.activeChannelIdInStorage]
                  /\ os'.events = 1
             ELSE /\ os'.activeChannel = os.activeChannel
                  /\ os'.storage = os.storage
                  /\ os'.viewChannel = os.viewChannel
                  /\ os'.events = 0]_vars

\* channel 'b' is registered while 'a' is active and stays out of the way;
\* the id read from storage was 'a'
C29_Witness ==
    /\ osLast = "register"
    /\ os.registry = <<"a", "b">>
    /\ os.activeChannel.id = "a"
    /\ os.activeChannelIdInStorage = "a"
    /\ os.events = 0
    /\ os.storage = [def |-> TRUE, id |-> "a"]

\* C25: once no computation of the level context waits, the context key of
\* the level being the default one tells of the active channel: it is true
\* exactly when that channel is a single-source log channel whose log level
\* is its default level
C25_LevelIsDefaultOfActiveChannel ==
    os.pendingLevel = {}
        => os.levelIsDefault
               = (/\ os.activeChannel # NoChannel
                  /\ isSingleSourceLogChannel(os.activeChannel.id)
                  /\ os.logLevel = os.defaultLogLevel)

\* C24: when a saveOutputAs call ends, on whichever path, the registry holds
\* the ids it held when the call began, and no text model reference is held
C24_SaveLeavesRegistry ==
    [][(osLast' \in {"saveOutputAs", "saveDialog", "saveWritten", "saveWriteFailed"}
           /\ os'.save.stage = "done")
          => /\ {os'.registry[i] : i \in 1..Len(os'.registry)} = os'.save.before
             /\ os'.modelRefs = 0]_vars

\* C26: whenever the sources filter hides a log source of the channel the
\* view shows, checkMoreFilters tells the filter widget that more filters
\* are active
C26_HiddenSourceIsReported ==
    (\E source \in EntrySources \ {<<>>} :
        hasSource(filters, activeChannelId \o <<"-">> \o source))
        => checkMoreFilters(filters, activeChannelId)

\* C30: hasCompletions is true exactly when a completion model is set and
\* holds at least one item
C30_HasCompletions ==
    hasCompletions(sw) <=> (sw.completionModel.def /\ Len(sw.completionModel.items) > 0)

\* C31: in state Hidden the list is empty and no focused item is recorded;
\* in the states Open, Frozen and Details the list is not empty; the state
\* Loading is never entered
C31_StateAndList ==
    /\ sw.state \in {"Hidden", "Empty", "Open", "Frozen", "Details"}
    /\ sw.state = "Hidden" => (sw.list = <<>> /\ sw.focusedItem = 0)
    /\ sw.state \in {"Open", "Frozen", "Details"} => sw.list # <<>>

\* the widget was hidden while it showed the items of a model it still holds
C31_Witness ==
    /\ swLast.op = "hide"
    /\ sw.state = "Hidden"
    /\ sw.list = <<>>
    /\ sw.focusedItem = 0
    /\ sw.completionModel.def
    /\ Len(sw.completionModel.items) = 2
    /\ sw.cursorPosition.def

\* C32: from the empty sources filter, with toggleSource only and names
\* without a comma, toggleSource(s) flips hasSource(s) and leaves hasSource(t)
\* as it was for every other name t; two toggleSource(s) in a row restore
\* hasSource for every name; hasSource(',') is false
C32_ToggleSourceFlipsOne ==
    /\ \A s \in SourceNames, t \in SourceNames :
          /\ hasSource(toggleSource(filters, s), t)
                 = IF t = s THEN ~hasSource(filters, t) ELSE hasSource(filters, t)
          /\ hasSource(toggleSource(toggleSource(filters, s), s), t) = hasSource(filters, t)
    /\ ~hasSource(filters, Comma)

\* the name 'a' was added after 'ab' and before the empty name, and removed
\* again: 'ab' and the empty name are left
C32_Witness ==
    /\ filters.sources = <<",", "a", "b", ",", ",">>
    /\ hasSource(filters, <<"a", "b">>)
    /\ hasSource(filters, <<>>)
    /\ ~hasSource(filters, <<"a">>)
    /\ ~hasSource(filters, <<"b">>)

====
